---- MODULE Spec2Model ----
(***************************************************************************)
(* A model of the MIDI device database merge scripts: merge.js (hard-coded *)
(* alias tables) and its successor (alias tables built from mapping.json). *)
(* JavaScript values are tagged records; strings are sequences of          *)
(* one-character strings, so that toLowerCase and the regular-expression   *)
(* replacements are computed character by character.                       *)
(***************************************************************************)
EXTENDS Integers, Sequences, FiniteSets, TLC

(***************************************************************************)
(* JavaScript values                                                       *)
(***************************************************************************)
Undef == [t |-> "undefined"]
Null == [t |-> "null"]
NaN == [t |-> "NaN"]
Str(s) == [t |-> "string", v |-> s]
Num(n) == [t |-> "number", v |-> n]
Bool(b) == [t |-> "boolean", v |-> b]
Arr(a) == [t |-> "array", v |-> a]
\* An object is the sequence of its own entries in insertion order.
Obj(es) == [t |-> "object", v |-> es]
EmptyObj == Obj(<<>>)

IsStr(x) == x.t = "string"
IsArr(x) == x.t = "array"
IsObj(x) == x.t = "object"

\* ToBoolean
Truthy(x) ==
  CASE x.t = "undefined" -> FALSE
    [] x.t = "null" -> FALSE
    [] x.t = "NaN" -> FALSE
    [] x.t = "string" -> x.v # <<>>
    [] x.t = "number" -> x.v # 0
    [] x.t = "boolean" -> x.v
    [] OTHER -> TRUE

\* a || b
OrElse(a, b) == IF Truthy(a) THEN a ELSE b

RECURSIVE IndexOfKey(_, _, _)
IndexOfKey(es, k, i) ==
  IF i > Len(es) THEN 0
  ELSE IF es[i].key = k THEN i
  ELSE IndexOfKey(es, k, i + 1)

\* o[k] for an object o (undefined when k is no own key)
Get(o, k) ==
  IF ~IsObj(o) THEN Undef
  ELSE LET i == IndexOfKey(o.v, k, 1) IN IF i = 0 THEN Undef ELSE o.v[i].val

Has(o, k) == IsObj(o) /\ IndexOfKey(o.v, k, 1) # 0

\* o[k] = x: an existing key keeps its place, a new key is appended
Put(o, k, x) ==
  LET i == IndexOfKey(o.v, k, 1) IN
  IF i = 0 THEN Obj(Append(o.v, [key |-> k, val |-> x]))
  ELSE Obj([o.v EXCEPT ![i] = [key |-> k, val |-> x]])

Keys(o) == [i \in 1..Len(o.v) |-> o.v[i].key]
KeySet(o) == {o.v[i].key : i \in 1..Len(o.v)}

\* x.length of a string or an array, undefined otherwise
LengthOf(x) == IF IsStr(x) \/ IsArr(x) THEN Len(x.v) ELSE 0

(***************************************************************************)
(* Strings                                                                 *)
(***************************************************************************)
UpperChars == <<"A","B","C","D","E","F","G","H","I","J","K","L","M",
                "N","O","P","Q","R","S","T","U","V","W","X","Y","Z">>
LowerChars == <<"a","b","c","d","e","f","g","h","i","j","k","l","m",
                "n","o","p","q","r","s","t","u","v","w","x","y","z">>
Digits == {"0","1","2","3","4","5","6","7","8","9"}
Whitespace == {" "}

LowerChar(c) ==
  IF \E i \in 1..26 : UpperChars[i] = c
  THEN LowerChars[CHOOSE i \in 1..26 : UpperChars[i] = c]
  ELSE c

\* String.prototype.toLowerCase
toLowerCase(s) == [i \in 1..Len(s) |-> LowerChar(s[i])]

\* s.replace(/\s+/g, r): every maximal run of whitespace becomes r
RECURSIVE ReplaceWs(_, _)
ReplaceWs(s, r) ==
  IF s = <<>> THEN <<>>
  ELSE IF s[1] \in Whitespace
       THEN IF Len(s) > 1 /\ s[2] \in Whitespace
            THEN ReplaceWs(Tail(s), r)
            ELSE r \o ReplaceWs(Tail(s), r)
       ELSE <<s[1]>> \o ReplaceWs(Tail(s), r)

\* s.replace(/c/g, r) for a one-character pattern c
RECURSIVE ReplaceChar(_, _, _)
ReplaceChar(s, c, r) ==
  IF s = <<>> THEN <<>>
  ELSE (IF s[1] = c THEN r ELSE <<s[1]>>) \o ReplaceChar(Tail(s), c, r)

\* whether the case-insensitive pattern pat matches s at position i, followed
\* by at least one digit when digit is TRUE
MatchAt(s, pat, i, digit) ==
  /\ i + Len(pat) - 1 <= Len(s)
  /\ \A j \in 1..Len(pat) : LowerChar(s[i + j - 1]) = pat[j]
  /\ digit => (i + Len(pat) <= Len(s) /\ s[i + Len(pat)] \in Digits)

\* s.replace(/pat/i, rep), or s.replace(/pat(\d+)/i, rep + '$1') when digit:
\* the first match only
ReplaceFirstCI(s, pat, rep, digit) ==
  IF \E i \in 1..Len(s) : MatchAt(s, pat, i, digit)
  THEN LET i == CHOOSE i \in 1..Len(s) :
                  /\ MatchAt(s, pat, i, digit)
                  /\ \A j \in 1..(i - 1) : ~MatchAt(s, pat, j, digit)
       IN SubSeq(s, 1, i - 1) \o rep \o SubSeq(s, i + Len(pat), Len(s))
  ELSE s

\* key.toLowerCase().replace(/\s+/g, '_')
NormalForm(s) == ReplaceWs(toLowerCase(s), <<"_">>)

(***************************************************************************)
(* Alias tables built from mapping.json                                    *)
(***************************************************************************)
\* table[k] = value for every k of keys, in order: a key the table holds
\* keeps its place, a new key is appended where it is first assigned
RegisterAll(table, keys, value) ==
  LET assigned == {keys[j] : j \in 1..Len(keys)}
      kept == [i \in 1..Len(table.v) |->
                 IF table.v[i].key \in assigned
                 THEN [key |-> table.v[i].key, val |-> Str(value)]
                 ELSE table.v[i]]
      first == SelectSeq([j \in 1..Len(keys) |-> j],
                         LAMBDA j : /\ ~Has(table, keys[j])
                                    /\ \A h \in 1..(j - 1) : keys[h] # keys[j])
  IN Obj(kept \o [n \in 1..Len(first) |-> [key |-> keys[first[n]], val |-> Str(value)]])

BrandSuffixes ==
  << <<"_","m","u","s","i","c">>,
     <<"m","u","s","i","c">>,
     <<"_","a","u","d","i","o">>,
     <<"a","u","d","i","o">>,
     <<"_","e","l","e","c","t","r","o","n","i","c","s">>,
     <<"e","l","e","c","t","r","o","n","i","c","s">>,
     <<"_","p","e","d","a","l","s">>,
     <<"p","e","d","a","l","s">>,
     <<"_","e","f","f","e","c","t","s">>,
     <<"e","f","f","e","c","t","s">>,
     <<"_","e","n","g","i","n","e","e","r","i","n","g">>,
     <<"e","n","g","i","n","e","e","r","i","n","g">> >>

\* the raw keys registered for one brand entry, in registration order
BrandVariants(brandName, brandValue) ==
  << brandValue,
     toLowerCase(brandName),
     ReplaceWs(toLowerCase(brandName), <<>>),
     ReplaceWs(toLowerCase(brandName), <<"_">>),
     ReplaceWs(toLowerCase(brandName), <<"-">>) >>
  \o [i \in 1..Len(BrandSuffixes) |-> brandValue \o BrandSuffixes[i]]
  \o << ReplaceChar(brandValue, "-", <<"_">>),
        ReplaceChar(brandValue, "_", <<"-">>) >>

\* the raw keys registered for one model entry, in registration order
ModelVariants(modelName, modelValue) ==
  << modelValue,
     toLowerCase(modelName),
     ReplaceWs(toLowerCase(modelName), <<>>),
     ReplaceWs(toLowerCase(modelName), <<"_">>),
     ReplaceWs(toLowerCase(modelName), <<"-">>),
     ReplaceChar(modelValue, "-", <<"_">>),
     ReplaceChar(modelValue, "_", <<"-">>),
     ReplaceChar(modelValue, ".", <<>>),
     ReplaceFirstCI(modelValue, <<"m","k">>, <<"m","a","r","k">>, TRUE),
     ReplaceFirstCI(modelValue, <<"m","a","r","k">>, <<"m","k">>, TRUE),
     ReplaceFirstCI(modelValue, <<"m","k","i","i">>, <<"m","k","2">>, FALSE),
     ReplaceFirstCI(modelValue, <<"m","k","2">>, <<"m","k","i","i">>, FALSE) >>

\* brand.models && Array.isArray(brand.models)
HasModels(brand) == IsArr(brand.models)

RECURSIVE RegisterModels(_, _)
RegisterModels(table, models) ==
  IF models = <<>> THEN table
  ELSE LET model == Head(models) IN
       IF ~Truthy(model.value) THEN RegisterModels(table, Tail(models))
       ELSE LET modelValue == model.value.v
                modelName == OrElse(model.name, model.value).v
            IN RegisterModels(
                 RegisterAll(table, ModelVariants(modelName, modelValue), modelValue),
                 Tail(models))

RECURSIVE BuildManufacturerMapping(_, _)
BuildManufacturerMapping(table, brands) ==
  IF brands = <<>> THEN table
  ELSE LET brand == Head(brands) IN
       BuildManufacturerMapping(
         RegisterAll(table, BrandVariants(brand.name.v, brand.value.v), brand.value.v),
         Tail(brands))

RECURSIVE BuildDeviceMapping(_, _)
BuildDeviceMapping(table, brands) ==
  IF brands = <<>> THEN table
  ELSE LET brand == Head(brands) IN
       BuildDeviceMapping(
         IF HasModels(brand) THEN RegisterModels(table, brand.models.v) ELSE table,
         Tail(brands))

RECURSIVE BuildBrandDisplayNamesByName(_, _)
\* a display name table keyed by the brand's name instead of its value
BuildBrandDisplayNamesByName(table, brands) ==
  IF brands = <<>> THEN table
  ELSE BuildBrandDisplayNamesByName(
         Put(table, Head(brands).name.v, Head(brands).name), Tail(brands))

RECURSIVE BuildBrandDisplayNames(_, _)
BuildBrandDisplayNames(table, brands) ==
  IF brands = <<>> THEN table
  ELSE BuildBrandDisplayNames(
         Put(table, Head(brands).value.v, Head(brands).name), Tail(brands))

RECURSIVE ModelNamesOf(_, _)
\* modelDisplayNames[brand.value][model.value] = model.name for one brand
ModelNamesOf(inner, models) ==
  IF models = <<>> THEN inner
  ELSE LET model == Head(models) IN
       ModelNamesOf(
         IF Truthy(model.value) /\ Truthy(model.name)
         THEN Put(IF IsObj(inner) THEN inner ELSE EmptyObj, model.value.v, model.name)
         ELSE inner,
         Tail(models))

RECURSIVE BuildModelDisplayNames(_, _)
BuildModelDisplayNames(table, brands) ==
  IF brands = <<>> THEN table
  ELSE LET brand == Head(brands)
           inner == IF HasModels(brand)
                    THEN ModelNamesOf(Get(table, brand.value.v), brand.models.v)
                    ELSE Undef
       IN BuildModelDisplayNames(
            IF IsObj(inner) THEN Put(table, brand.value.v, inner) ELSE table,
            Tail(brands))

NoMappings ==
  [manufacturerMapping |-> EmptyObj, deviceMapping |-> EmptyObj,
   brandDisplayNames |-> EmptyObj, modelDisplayNames |-> EmptyObj]

\* reading or parsing mapping.json throws, or a brand entry lacks the string
\* name or value the variant generation calls string methods on
LoadThrows(mapping) ==
  \/ ~mapping.readable
  \/ \E i \in 1..Len(mapping.brands) :
       ~IsStr(mapping.brands[i].name) \/ ~IsStr(mapping.brands[i].value)

\* a loader that keeps what it built from the well-formed brand entries when
\* another entry fails
loadMappingsKeepsBuilt(mapping) ==
  LET brands == SelectSeq(mapping.brands, LAMBDA b : IsStr(b.name) /\ IsStr(b.value)) IN
  [manufacturerMapping |-> BuildManufacturerMapping(EmptyObj, brands),
   deviceMapping |-> BuildDeviceMapping(EmptyObj, brands),
   brandDisplayNames |-> BuildBrandDisplayNames(EmptyObj, brands),
   modelDisplayNames |-> BuildModelDisplayNames(EmptyObj, brands)]

loadMappings(mapping) ==
  IF LoadThrows(mapping) THEN NoMappings
  ELSE [manufacturerMapping |-> BuildManufacturerMapping(EmptyObj, mapping.brands),
        deviceMapping |-> BuildDeviceMapping(EmptyObj, mapping.brands),
        brandDisplayNames |-> BuildBrandDisplayNames(EmptyObj, mapping.brands),
        modelDisplayNames |-> BuildModelDisplayNames(EmptyObj, mapping.brands)]

(***************************************************************************)
(* Key normalization                                                       *)
(***************************************************************************)
\* displayNameTable ? (displayNameTable[normalizedKey] || normalizedKey) : normalizedKey
DisplayNameOf(normalizedKey, displayNameTable) ==
  IF Truthy(displayNameTable)
  THEN OrElse(Get(displayNameTable, normalizedKey.v), normalizedKey)
  ELSE normalizedKey

\* a normalizer that derives the id from the display name it returns
normalizeAndMapKeyByDisplayName(key, mappingTable, displayNameTable) ==
  LET canonical ==
        IF Truthy(Get(mappingTable, key))
        THEN DisplayNameOf(Get(mappingTable, key), displayNameTable).v
        ELSE IF Truthy(Get(mappingTable, toLowerCase(key)))
        THEN DisplayNameOf(Get(mappingTable, toLowerCase(key)), displayNameTable).v
        ELSE key
  IN [normalized |-> NormalForm(canonical), canonical |-> canonical]

\* a normalizer that tries the lowercased key before the key itself
normalizeAndMapKeyLowercaseFirst(key, mappingTable, displayNameTable) ==
  IF Truthy(Get(mappingTable, toLowerCase(key)))
  THEN LET normalizedKey == Get(mappingTable, toLowerCase(key)) IN
       [normalized |-> NormalForm(normalizedKey.v),
        canonical |-> DisplayNameOf(normalizedKey, displayNameTable).v]
  ELSE IF Truthy(Get(mappingTable, key))
  THEN LET normalizedKey == Get(mappingTable, key) IN
       [normalized |-> NormalForm(normalizedKey.v),
        canonical |-> DisplayNameOf(normalizedKey, displayNameTable).v]
  ELSE [normalized |-> NormalForm(key), canonical |-> key]

normalizeAndMapKey(key, mappingTable, displayNameTable) ==
  IF Truthy(Get(mappingTable, key))
  THEN LET normalizedKey == Get(mappingTable, key) IN
       [normalized |-> NormalForm(normalizedKey.v),
        canonical |-> DisplayNameOf(normalizedKey, displayNameTable).v]
  ELSE IF Truthy(Get(mappingTable, toLowerCase(key)))
  THEN LET normalizedKey == Get(mappingTable, toLowerCase(key)) IN
       [normalized |-> NormalForm(normalizedKey.v),
        canonical |-> DisplayNameOf(normalizedKey, displayNameTable).v]
  ELSE [normalized |-> NormalForm(key), canonical |-> key]

\* merge.js: two parameters, the mapped value is the display name
normalizeAndMapKeyLegacy(key, mappingTable) ==
  IF Truthy(Get(mappingTable, key))
  THEN [normalized |-> NormalForm(Get(mappingTable, key).v),
        canonical |-> Get(mappingTable, key).v]
  ELSE IF Truthy(Get(mappingTable, toLowerCase(key)))
  THEN [normalized |-> NormalForm(Get(mappingTable, toLowerCase(key)).v),
        canonical |-> Get(mappingTable, toLowerCase(key)).v]
  ELSE [normalized |-> NormalForm(key), canonical |-> key]

\* modelDisplayNames[brandKey] && modelDisplayNames[brandKey][modelKey]
getModelDisplayName(modelDisplayNames, brandKey, modelKey) ==
  IF Truthy(Get(modelDisplayNames, brandKey))
     /\ Truthy(Get(Get(modelDisplayNames, brandKey), modelKey))
  THEN Get(Get(modelDisplayNames, brandKey), modelKey).v
  ELSE modelKey

(***************************************************************************)
(* Device records                                                          *)
(***************************************************************************)
DigitChars == <<"0","1","2","3","4","5","6","7","8","9">>
DigitVal(c) == (CHOOSE i \in 1..10 : DigitChars[i] = c) - 1

RECURSIVE SkipWs(_)
SkipWs(s) == IF s # <<>> /\ s[1] \in Whitespace THEN SkipWs(Tail(s)) ELSE s

RECURSIVE DigitsValue(_, _)
\* the value of the longest prefix of digits of s, read after acc
DigitsValue(s, acc) ==
  IF s # <<>> /\ s[1] \in Digits
  THEN DigitsValue(Tail(s), 10 * acc + DigitVal(s[1]))
  ELSE acc

\* parseInt(s, 10)
parseInt(s) ==
  LET u == SkipWs(s)
      neg == u # <<>> /\ u[1] = "-"
      d == IF u # <<>> /\ u[1] \in {"-", "+"} THEN Tail(u) ELSE u
  IN IF d = <<>> \/ d[1] \notin Digits THEN NaN
     ELSE Num(IF neg THEN 0 - DigitsValue(d, 0) ELSE DigitsValue(d, 0))

\* typeof x === 'string' ? parseInt(x, 10) : x
CoerceInt(x) == IF IsStr(x) THEN parseInt(x.v) ELSE x

\* a coercion that takes the default for every falsy value: x || dflt
CoerceIntOrFalsy(x, dflt) ==
  IF IsStr(x) THEN parseInt(x.v) ELSE IF Truthy(x) THEN x ELSE Num(dflt)

\* typeof x === 'string' ? parseInt(x, 10) : (x !== undefined ? x : dflt)
CoerceIntOr(x, dflt) ==
  IF IsStr(x) THEN parseInt(x.v) ELSE IF x # Undef THEN x ELSE Num(dflt)

CCMaxDefault == 127
NRPNMaxDefault == 16383

s_zero_based == <<"0","-","b","a","s","e","d">>
s_Parameter == <<"P","a","r","a","m","e","t","e","r">>
s_None == <<"N","o","n","e">>
s_description == <<"d","e","s","c","r","i","p","t","i","o","n">>
s_ProgramChange == <<"P","r","o","g","r","a","m"," ","C","h","a","n","g","e">>

StdCC(cc) ==
  [name |-> OrElse(cc.name, Str(<<>>)),
   description |-> OrElse(cc.description, Str(<<>>)),
   usage |-> OrElse(cc.usage, Str(<<>>)),
   curve |-> OrElse(cc.curve, Str(s_zero_based)),
   value |-> CoerceInt(cc.value),
   min |-> CoerceIntOr(cc.min, 0),
   max |-> CoerceIntOr(cc.max, CCMaxDefault),
   type |-> OrElse(cc.type, Str(s_Parameter))]

StdNRPN(nrpn) ==
  [name |-> OrElse(nrpn.name, Str(<<>>)),
   description |-> OrElse(nrpn.description, Str(<<>>)),
   usage |-> OrElse(nrpn.usage, Str(<<>>)),
   curve |-> OrElse(nrpn.curve, Str(s_zero_based)),
   msb |-> CoerceInt(nrpn.msb),
   lsb |-> CoerceInt(nrpn.lsb),
   min |-> CoerceIntOr(nrpn.min, 0),
   max |-> CoerceIntOr(nrpn.max, NRPNMaxDefault),
   type |-> OrElse(nrpn.type, Str(s_Parameter))]

\* deviceData.f: a property read of a device object; of a primitive (a
\* character of a string the database holds in a brand's place) it is undefined
Field(deviceData, f) == IF deviceData.t = "device" THEN deviceData[f] ELSE Undef

\* x?.instructions
Instructions(mc) == IF mc.t = "midi_channel" THEN mc.instructions ELSE Undef

MidiChannel(i) == [t |-> "midi_channel", instructions |-> i]

\* (deviceData.cc || []).map(...) for an array or an absent list
StdCCList(list) ==
  IF IsArr(list) THEN Arr([i \in 1..Len(list.v) |-> StdCC(list.v[i])]) ELSE Arr(<<>>)

\* (deviceData.nrpn || []).map(...)
StdNRPNList(list) ==
  IF IsArr(list) THEN Arr([i \in 1..Len(list.v) |-> StdNRPN(list.v[i])]) ELSE Arr(<<>>)

\* a standardizer that copies the scalar fields and lists as the raw
\* device holds them, without the || defaults
createStandardDeviceNoDefaults(deviceData, brandName, deviceName) ==
  [t |-> "standard",
   brand |-> brandName,
   device_name |-> deviceName,
   midi_thru |-> Field(deviceData, "midi_thru"),
   midi_in |-> Field(deviceData, "midi_in"),
   midi_clock |-> Field(deviceData, "midi_clock"),
   phantom_power |-> Field(deviceData, "phantom_power"),
   midi_channel |-> MidiChannel(Instructions(Field(deviceData, "midi_channel"))),
   instructions |-> Field(deviceData, "instructions"),
   cc |-> StdCCList(Field(deviceData, "cc")),
   nrpn |-> StdNRPNList(Field(deviceData, "nrpn")),
   pc |-> Arr(<<>>)]

createStandardDevice(deviceData, brandName, deviceName) ==
  [t |-> "standard",
   brand |-> brandName,
   device_name |-> deviceName,
   midi_thru |-> OrElse(Field(deviceData, "midi_thru"), Bool(FALSE)),
   midi_in |-> OrElse(Field(deviceData, "midi_in"), Str(<<>>)),
   midi_clock |-> OrElse(Field(deviceData, "midi_clock"), Bool(FALSE)),
   phantom_power |-> OrElse(Field(deviceData, "phantom_power"), Str(s_None)),
   midi_channel |->
     MidiChannel(OrElse(Instructions(Field(deviceData, "midi_channel")), Str(<<>>))),
   instructions |-> OrElse(Field(deviceData, "instructions"), Str(<<>>)),
   cc |-> StdCCList(Field(deviceData, "cc")),
   nrpn |-> StdNRPNList(Field(deviceData, "nrpn")),
   pc |-> Arr(<<>>)]

\* createStandardDevice throws: a property read of null, or .map of a value
\* that is no array
StandardThrows(deviceData) ==
  \/ deviceData.t = "null"
  \/ Truthy(Field(deviceData, "cc")) /\ ~IsArr(Field(deviceData, "cc"))
  \/ Truthy(Field(deviceData, "nrpn")) /\ ~IsArr(Field(deviceData, "nrpn"))

\* list?.length > 0
NonEmpty(list) == IsArr(list) /\ Len(list.v) > 0

\* a merge that joins the two lists instead of choosing one
MergeListConcat(a, b) ==
  Arr((IF IsArr(a) THEN a.v ELSE <<>>) \o (IF IsArr(b) THEN b.v ELSE <<>>))

\* the cc, nrpn or pc list mergeDevices keeps
MergeList(a, b) ==
  IF NonEmpty(a) /\ NonEmpty(b)
  THEN IF Len(a.v) >= Len(b.v) THEN a ELSE b
  ELSE IF NonEmpty(a) THEN a
  ELSE IF NonEmpty(b) THEN b
  ELSE Arr(<<>>)

\* { ...deviceB, ...deviceA }[f]: an absent field reads undefined
Spread(deviceA, deviceB, f) == IF deviceA[f] # Undef THEN deviceA[f] ELSE deviceB[f]

\* merged.midi_channel after the nested-object step: the object spread from
\* deviceA (deviceB's when deviceA has none), its instructions replaced by
\* the longer string only when both sides have a non-empty one
MergeChannel(deviceA, deviceB) ==
  LET mc == Spread(deviceA, deviceB, "midi_channel")
      ia == Instructions(deviceA.midi_channel)
      ib == Instructions(deviceB.midi_channel)
  IN IF Truthy(ia) /\ Truthy(ib)
     THEN MidiChannel(IF LengthOf(ia) >= LengthOf(ib) THEN ia ELSE ib)
     ELSE mc

\* the object passed as deviceA once mergeDevices has returned: merged holds
\* deviceA's own midi_channel object (the spread copies the reference), so the
\* assignment to merged.midi_channel.instructions is a write into deviceA
DeviceAAfterMerge(deviceA, deviceB) ==
  LET ia == Instructions(deviceA.midi_channel)
      ib == Instructions(deviceB.midi_channel)
  IN IF Truthy(ia) /\ Truthy(ib)
     THEN [deviceA EXCEPT !.midi_channel =
             MidiChannel(IF LengthOf(ia) >= LengthOf(ib) THEN ia ELSE ib)]
     ELSE deviceA

\* the object passed as deviceB once mergeDevices has returned: it is only
\* read
DeviceBAfterMerge(deviceA, deviceB) == deviceB

mergeDevices(deviceA, deviceB) ==
  [t |-> "standard",
   brand |-> Spread(deviceA, deviceB, "brand"),
   device_name |-> Spread(deviceA, deviceB, "device_name"),
   midi_thru |-> OrElse(Spread(deviceA, deviceB, "midi_thru"), Bool(FALSE)),
   midi_in |-> OrElse(Spread(deviceA, deviceB, "midi_in"), Str(<<>>)),
   midi_clock |-> OrElse(Spread(deviceA, deviceB, "midi_clock"), Bool(FALSE)),
   phantom_power |-> OrElse(Spread(deviceA, deviceB, "phantom_power"), Str(s_None)),
   midi_channel |-> OrElse(MergeChannel(deviceA, deviceB), MidiChannel(Str(<<>>))),
   instructions |-> OrElse(Spread(deviceA, deviceB, "instructions"), Str(<<>>)),
   cc |-> MergeList(deviceA.cc, deviceB.cc),
   nrpn |-> MergeList(deviceA.nrpn, deviceB.nrpn),
   pc |-> MergeList(deviceA.pc, deviceB.pc)]

(***************************************************************************)
(* The resolution engine                                                   *)
(***************************************************************************)
s_version == <<"v","e","r","s","i","o","n">>
s_generatedAt == <<"g","e","n","e","r","a","t","e","d","A","t">>
s_undefined == <<"u","n","d","e","f","i","n","e","d">>
reservedKeys == <<s_version, s_generatedAt>>
IsReserved(key) == \E i \in 1..Len(reservedKeys) : reservedKeys[i] = key

Mapped == "mapped"
Legacy == "legacy"
\* the two merge scripts: merge.js with its literal tables, and the script
\* that loads its tables from mapping.json
Scripts == {Legacy, Mapped}

\* a property key: undefined names the property "undefined"
PropertyKey(x) == IF IsStr(x) THEN x.v ELSE s_undefined

\* Object.entries(x): own entries of an object, the indexed characters of a
\* string, nothing of a number or a boolean
RECURSIVE IndexString(_)
IndexString(n) ==
  IF n < 10 THEN <<DigitChars[n + 1]>>
  ELSE IndexString(n \div 10) \o <<DigitChars[(n % 10) + 1]>>

ObjectEntries(x) ==
  IF IsObj(x) THEN x.v
  ELSE IF IsStr(x)
       THEN [i \in 1..Len(x.v) |-> [key |-> IndexString(i - 1), val |-> Str(<<x.v[i]>>)]]
       ELSE <<>>

\* Object.entries throws a TypeError on null and undefined
EntriesThrows(x) == x.t \in {"null", "undefined"}

\* the metadata copied from the target database
PreservedMetadata(targetDb) ==
  LET withVersion ==
        IF Get(targetDb, s_version) # Undef
        THEN Put(EmptyObj, s_version, Get(targetDb, s_version)) ELSE EmptyObj
  IN IF Get(targetDb, s_generatedAt) # Undef
     THEN Put(withVersion, s_generatedAt, Get(targetDb, s_generatedAt))
     ELSE withVersion

\* the brand resolution of either loop
ResolveBrand(script, tables, brandKey) ==
  IF script = Mapped
  THEN normalizeAndMapKey(brandKey, tables.manufacturerMapping, tables.brandDisplayNames)
  ELSE normalizeAndMapKeyLegacy(brandKey, tables.manufacturerMapping)

\* the device resolution of either loop: the display name table is not passed
ResolveDevice(script, tables, deviceKey) ==
  IF script = Mapped
  THEN normalizeAndMapKey(deviceKey, tables.deviceMapping, Null)
  ELSE normalizeAndMapKeyLegacy(deviceKey, tables.deviceMapping)

\* the name a device is grouped and stored under, as the target loop sets it
DeviceDisplayName(script, tables, normalizedBrand, resolved) ==
  IF script = Mapped
  THEN getModelDisplayName(tables.modelDisplayNames, normalizedBrand, resolved.normalized)
  ELSE resolved.canonical

\* `${normalizedBrand}_${normalizedDevice}`
DeviceId(normalizedBrand, normalizedDevice) ==
  normalizedBrand \o <<"_">> \o normalizedDevice

\* manufacturers[normalizedBrand] after the target loop has seen brandKey
TargetManufacturer(manufacturers, normalizedBrand, canonicalBrand, brandKey) ==
  IF ~Truthy(Get(manufacturers, normalizedBrand))
  THEN Put(manufacturers, normalizedBrand,
           [t |-> "manufacturer", variants |-> <<brandKey>>,
            canonicalName |-> Str(canonicalBrand), devices |-> EmptyObj])
  ELSE LET m == Get(manufacturers, normalizedBrand) IN
       Put(manufacturers, normalizedBrand,
           [m EXCEPT !.variants = Append(m.variants, brandKey)])

\* manufacturers[normalizedBrand] after the source loop has seen brandKey;
\* merge.js creates the entry without a canonicalName
SourceManufacturer(script, manufacturers, normalizedBrand, canonicalBrand, brandKey) ==
  IF ~Truthy(Get(manufacturers, normalizedBrand))
  THEN Put(manufacturers, normalizedBrand,
           [t |-> "manufacturer", variants |-> <<brandKey>>,
            canonicalName |-> IF script = Mapped THEN Str(canonicalBrand) ELSE Undef,
            devices |-> EmptyObj])
  ELSE LET m == Get(manufacturers, normalizedBrand) IN
       IF \E i \in 1..Len(m.variants) : m.variants[i] = brandKey
       THEN manufacturers
       ELSE Put(manufacturers, normalizedBrand,
                [m EXCEPT !.variants = Append(m.variants, brandKey)])

\* normalizedDeviceMap[deviceId].push(variant)
PushVariant(normalizedDeviceMap, deviceId, variant) ==
  Put(normalizedDeviceMap, deviceId,
      Arr(IF Truthy(Get(normalizedDeviceMap, deviceId))
          THEN Append(Get(normalizedDeviceMap, deviceId).v, variant)
          ELSE <<variant>>))

\* manufacturers[normalizedBrand].devices[normalizedDevice] = deviceId
SetDevice(manufacturers, normalizedBrand, normalizedDevice, deviceId) ==
  LET m == Get(manufacturers, normalizedBrand) IN
  Put(manufacturers, normalizedBrand,
      [m EXCEPT !.devices = Put(m.devices, normalizedDevice, Str(deviceId))])

\* the target loop's variant of one device
TargetVariant(script, tables, brandKey, deviceKey, deviceData, brand) ==
  LET resolved == ResolveDevice(script, tables, deviceKey)
      display == DeviceDisplayName(script, tables, brand.normalized, resolved)
  IN [brandKey |-> brandKey, deviceKey |-> deviceKey,
      canonicalBrandName |-> Str(brand.canonical),
      canonicalDeviceName |-> Str(display),
      data |-> createStandardDevice(deviceData,
                 OrElse(Field(deviceData, "brand"), Str(brand.canonical)),
                 OrElse(Field(deviceData, "device_name"), Str(display)))]

\* a pc handling that files the Program Change entry under cc and leaves
\* the pc object in place
NormalizePcIntoCC(deviceData) ==
  IF Truthy(Field(deviceData, "pc")) /\ ~IsArr(Field(deviceData, "pc"))
  THEN [deviceData EXCEPT !.cc =
          Arr((IF IsArr(deviceData.cc) THEN deviceData.cc.v ELSE <<>>) \o
              <<[name |-> Str(s_ProgramChange),
                 description |-> OrElse(Get(deviceData.pc, s_description), Str(<<>>)),
                 usage |-> Str(<<>>),
                 curve |-> Str(s_zero_based),
                 value |-> Num(0),
                 min |-> Num(0),
                 max |-> Num(CCMaxDefault),
                 type |-> Str(s_Parameter)]>>)]
  ELSE deviceData

\* deviceData after the source loop's special handling of pc
NormalizePc(deviceData) ==
  IF Truthy(Field(deviceData, "pc")) /\ ~IsArr(Field(deviceData, "pc"))
  THEN [deviceData EXCEPT !.pc =
          Arr(<<[name |-> Str(s_ProgramChange),
                 description |-> OrElse(Get(deviceData.pc, s_description), Str(<<>>)),
                 usage |-> Str(<<>>),
                 curve |-> Str(s_zero_based),
                 value |-> Num(0),
                 min |-> Num(0),
                 max |-> Num(CCMaxDefault),
                 type |-> Str(s_Parameter)]>>)]
  ELSE deviceData

\* the source loop's variant of one device, built from the device data as
\* the pc handling left it
SourceVariant(script, tables, brandKey, deviceKey, deviceData, brand) ==
  LET resolved == ResolveDevice(script, tables, deviceKey)
      display == DeviceDisplayName(script, tables, brand.normalized, resolved)
  IN IF script = Mapped
     THEN [brandKey |-> brandKey, deviceKey |-> deviceKey,
           canonicalBrandName |-> Str(brand.canonical),
           canonicalDeviceName |-> Str(display),
           data |-> createStandardDevice(deviceData, Str(brand.canonical), Str(display))]
     ELSE [brandKey |-> brandKey, deviceKey |-> deviceKey,
           canonicalBrandName |-> Undef,
           canonicalDeviceName |-> Undef,
           data |-> createStandardDevice(deviceData, Str(brandKey), Str(deviceKey))]

RECURSIVE DeviceLoop(_, _, _, _, _, _, _, _)
\* the inner forEach over a brand's devices, from entry i on; acc carries
\* manufacturers (m), normalizedDeviceMap (n), the brand's entries as the
\* loop leaves them (d) and whether an exception ended it (thrown)
DeviceLoop(script, side, tables, brandKey, brand, entries, i, acc) ==
  IF i > Len(entries) \/ acc.thrown THEN acc
  ELSE LET deviceKey == entries[i].key
           deviceData == entries[i].val
           resolved == ResolveDevice(script, tables, deviceKey)
           deviceId == DeviceId(brand.normalized, resolved.normalized)
           data == IF side = "source" /\ deviceData.t # "null"
                   THEN NormalizePc(deviceData) ELSE deviceData
           variant == IF side = "target"
                      THEN TargetVariant(script, tables, brandKey, deviceKey, data, brand)
                      ELSE SourceVariant(script, tables, brandKey, deviceKey, data, brand)
       IN IF StandardThrows(deviceData)
          THEN [acc EXCEPT !.thrown = TRUE]
          ELSE DeviceLoop(script, side, tables, brandKey, brand, entries, i + 1,
                 [m |-> SetDevice(acc.m, brand.normalized, resolved.normalized, deviceId),
                  n |-> PushVariant(acc.n, deviceId, variant),
                  d |-> [acc.d EXCEPT ![i] = [key |-> deviceKey, val |-> data]],
                  thrown |-> FALSE])

\* one iteration of the outer forEach of either loop over a top-level entry
BrandLoop(script, side, tables, manufacturers, normalizedDeviceMap, brandKey, brandData) ==
  LET brand == ResolveBrand(script, tables, brandKey)
      m == IF side = "target"
           THEN TargetManufacturer(manufacturers, brand.normalized, brand.canonical, brandKey)
           ELSE SourceManufacturer(script, manufacturers, brand.normalized,
                                   brand.canonical, brandKey)
  IN IF EntriesThrows(brandData)
     THEN [m |-> m, n |-> normalizedDeviceMap, d |-> <<>>, thrown |-> TRUE]
     ELSE DeviceLoop(script, side, tables, brandKey, brand, ObjectEntries(brandData), 1,
            [m |-> m, n |-> normalizedDeviceMap, d |-> ObjectEntries(brandData),
             thrown |-> FALSE])

RECURSIVE ProcessDatabase(_, _, _, _, _, _)
\* Object.entries(db).forEach of either loop from entry i on: the target loop
\* skips version and generatedAt, an exception ends the loop; acc carries
\* manufacturers (m), normalizedDeviceMap (n) and thrown
ProcessDatabase(script, side, tables, db, i, acc) ==
  IF i > Len(db.v) \/ acc.thrown THEN acc
  ELSE IF side = "target" /\ IsReserved(db.v[i].key)
  THEN ProcessDatabase(script, side, tables, db, i + 1, acc)
  ELSE LET r == BrandLoop(script, side, tables, acc.m, acc.n, db.v[i].key, db.v[i].val)
       IN IF r.thrown THEN [acc EXCEPT !.thrown = TRUE]
          ELSE ProcessDatabase(script, side, tables, db, i + 1,
                               [m |-> r.m, n |-> r.n, thrown |-> FALSE])

\* variant.canonicalDeviceName || variant.deviceKey
ModelNameOf(variant) ==
  OrElse(variant.canonicalDeviceName, Str(variant.deviceKey)).v

RECURSIVE GroupByName(_, _, _)
\* variantsByName: model name -> the indices into deviceVariants of its variants
GroupByName(deviceVariants, i, groups) ==
  IF i > Len(deviceVariants) THEN groups
  ELSE LET modelName == ModelNameOf(deviceVariants[i]) IN
       GroupByName(deviceVariants, i + 1,
         Put(groups, modelName,
             IF Truthy(Get(groups, modelName))
             THEN Arr(Append(Get(groups, modelName).v, i))
             ELSE Arr(<<i>>)))

\* (cc?.length || 0) + (nrpn?.length || 0) + (pc?.length || 0)
ParamCount(data) == LengthOf(data.cc) + LengthOf(data.nrpn) + LengthOf(data.pc)

RECURSIVE InsertSortedTiesFirst(_, _, _)
\* an insertion that puts idx before the entries it ties with
InsertSortedTiesFirst(sorted, idx, deviceVariants) ==
  IF sorted = <<>> THEN <<idx>>
  ELSE IF ParamCount(deviceVariants[idx].data) >= ParamCount(deviceVariants[Head(sorted)].data)
       THEN <<idx>> \o sorted
       ELSE <<Head(sorted)>> \o InsertSortedTiesFirst(Tail(sorted), idx, deviceVariants)

RECURSIVE InsertSorted(_, _, _)
\* idx put into the sorted index list after every entry it does not beat
InsertSorted(sorted, idx, deviceVariants) ==
  IF sorted = <<>> THEN <<idx>>
  ELSE IF ParamCount(deviceVariants[idx].data) > ParamCount(deviceVariants[Head(sorted)].data)
       THEN <<idx>> \o sorted
       ELSE <<Head(sorted)>> \o InsertSorted(Tail(sorted), idx, deviceVariants)

RECURSIVE SortVariants(_, _, _)
\* variants.sort((a, b) => bCount - aCount): descending by parameter count, stable
SortVariants(indices, deviceVariants, sorted) ==
  IF indices = <<>> THEN sorted
  ELSE SortVariants(Tail(indices), deviceVariants,
                    InsertSorted(sorted, Head(indices), deviceVariants))

RECURSIVE FoldMerge(_, _, _, _)
\* mergedData = mergeDevices(mergedData, variants[i].data) for i from 1 (0-based)
FoldMerge(mergedData, sorted, i, deviceVariants) ==
  IF i > Len(sorted) THEN mergedData
  ELSE FoldMerge(mergeDevices(mergedData, deviceVariants[sorted[i]].data),
                 sorted, i + 1, deviceVariants)

VariantId(variant) == [brandKey |-> variant.brandKey, deviceKey |-> variant.deviceKey]

RECURSIVE GroupLoop(_, _, _, _, _)
\* the forEach over variantsByName for one bucket; acc carries the brand's
\* output entry (out), the bucket's variants (bucket: the fold writes the
\* seed's shared midi_channel object) and the mergeDevices calls made (calls)
GroupLoop(groups, g, primaryBrandKey, acc, deviceId) ==
  IF g > Len(groups.v) THEN acc
  ELSE LET modelName == groups.v[g].key
           sorted == SortVariants(groups.v[g].val.v, acc.bucket, <<>>)
           seed == sorted[1]
           merged == FoldMerge(acc.bucket[seed].data, sorted, 2, acc.bucket)
           stamped == [merged EXCEPT !.brand = primaryBrandKey,
                                     !.device_name = Str(modelName)]
       IN GroupLoop(groups, g + 1, primaryBrandKey,
            [out |-> Put(acc.out, modelName, stamped),
             bucket |-> [acc.bucket EXCEPT ![seed].data.midi_channel = merged.midi_channel],
             calls |-> acc.calls \cup
               {[bucket |-> deviceId,
                 primary |-> VariantId(acc.bucket[seed]),
                 primaryName |-> ModelNameOf(acc.bucket[seed]),
                 secondary |-> VariantId(acc.bucket[sorted[i]]),
                 secondaryName |-> ModelNameOf(acc.bucket[sorted[i]])] :
                  i \in 2..Len(sorted)}],
            deviceId)

RECURSIVE BucketLoop(_, _, _, _)
\* the forEach over data.devices of one manufacturer; acc carries the brand's
\* output entry (out), normalizedDeviceMap (n) and the calls made (calls)
BucketLoop(devices, d, primaryBrandKey, acc) ==
  IF d > Len(devices.v) THEN acc
  ELSE LET deviceId == devices.v[d].val.v
           deviceVariants == Get(acc.n, deviceId).v
           r == GroupLoop(GroupByName(deviceVariants, 1, EmptyObj), 1, primaryBrandKey,
                          [out |-> acc.out, bucket |-> deviceVariants, calls |-> acc.calls],
                          deviceId)
       IN BucketLoop(devices, d + 1, primaryBrandKey,
            [out |-> r.out, n |-> Put(acc.n, deviceId, Arr(r.bucket)), calls |-> r.calls])

\* one iteration of the forEach over manufacturers: finalDb[primaryBrandKey]
\* is reset to {} and then filled
BuildBrand(finalDb, normalizedDeviceMap, data) ==
  LET primaryBrandKey == data.canonicalName
      r == BucketLoop(data.devices, 1, primaryBrandKey,
                      [out |-> EmptyObj, n |-> normalizedDeviceMap, calls |-> {}])
  IN [finalDb |-> Put(finalDb, PropertyKey(primaryBrandKey), r.out),
      n |-> r.n, calls |-> r.calls]

RECURSIVE BuildLoop(_, _, _)
\* Object.entries(manufacturers).forEach from entry i on; acc carries finalDb
\* and normalizedDeviceMap (n)
BuildLoop(manufacturers, i, acc) ==
  IF i > Len(manufacturers.v) THEN acc
  ELSE LET r == BuildBrand(acc.finalDb, acc.n, manufacturers.v[i].val) IN
       BuildLoop(manufacturers, i + 1, [finalDb |-> r.finalDb, n |-> r.n])

\* the main block from the metadata copy to the completed finalDb, on two
\* parsed databases; undefined when a loop throws
Resolve(script, tables, targetDb, sourceDb) ==
  LET t == ProcessDatabase(script, "target", tables, targetDb, 1,
                           [m |-> EmptyObj, n |-> EmptyObj, thrown |-> FALSE])
      s == ProcessDatabase(script, "source", tables, sourceDb, 1, t)
  IN IF s.thrown THEN Undef
     ELSE BuildLoop(s.m, 1, [finalDb |-> PreservedMetadata(targetDb), n |-> s.n]).finalDb

(***************************************************************************)
(* Files                                                                   *)
(***************************************************************************)
\* UTF-16 code unit order of the characters that occur in file names
CharOrder ==
  <<" ", "-", ".", "0","1","2","3","4","5","6","7","8","9",
    "A","B","C","D","E","F","G","H","I","J","K","L","M",
    "N","O","P","Q","R","S","T","U","V","W","X","Y","Z", "_",
    "a","b","c","d","e","f","g","h","i","j","k","l","m",
    "n","o","p","q","r","s","t","u","v","w","x","y","z">>
CodeOf(c) == CHOOSE i \in 1..Len(CharOrder) : CharOrder[i] = c

RECURSIVE StrLess(_, _)
\* a < b as Array.prototype.sort compares strings
StrLess(a, b) ==
  IF b = <<>> THEN FALSE
  ELSE IF a = <<>> THEN TRUE
  ELSE IF a[1] = b[1] THEN StrLess(Tail(a), Tail(b))
  ELSE CodeOf(a[1]) < CodeOf(b[1])

startsWith(s, prefix) ==
  Len(s) >= Len(prefix) /\ SubSeq(s, 1, Len(prefix)) = prefix
endsWith(s, suffix) ==
  Len(s) >= Len(suffix) /\ SubSeq(s, Len(s) - Len(suffix) + 1, Len(s)) = suffix

s_prefix == <<"m","i","d","i","-","d","a","t","a","b","a","s","e","-","v">>
s_json == <<".","j","s","o","n">>
s_min_json == <<".","m","i","n",".","j","s","o","n">>
s_json_gz == <<".","j","s","o","n",".","g","z">>

\* the files of the directory findLatestDatabase considers
DbFiles(files) ==
  {f \in files : /\ startsWith(f, s_prefix)
                 /\ endsWith(f, s_json)
                 /\ ~endsWith(f, s_min_json)
                 /\ ~endsWith(f, s_json_gz)}

\* dbFiles.sort().reverse()[0]; the function throws when dbFiles is empty
findLatestDatabase(files) ==
  CHOOSE f \in DbFiles(files) : \A g \in DbFiles(files) : ~StrLess(f, g)

\* JSON.stringify of a parameter or a device record: a property whose value
\* is undefined is left out, NaN is written as null
JsonFields(rec, names) ==
  LET present == SelectSeq(names, LAMBDA f : rec[f] # Undef) IN
  Obj([i \in 1..Len(present) |->
         [key |-> present[i],
          val |-> IF rec[present[i]] = NaN THEN Null ELSE rec[present[i]]]])

ParamFields ==
  <<"name", "description", "usage", "curve", "value", "msb", "lsb", "min", "max", "type">>

JsonParam(p) ==
  JsonFields(p, SelectSeq(ParamFields, LAMBDA f : f \in DOMAIN p))

JsonList(list) == Arr([i \in 1..Len(list.v) |-> JsonParam(list.v[i])])

JsonDevice(d) ==
  JsonFields([d EXCEPT !.cc = JsonList(d.cc), !.nrpn = JsonList(d.nrpn),
                       !.pc = JsonList(d.pc)],
             <<"brand", "device_name", "midi_thru", "midi_in", "midi_clock",
               "phantom_power", "midi_channel", "instructions", "cc", "nrpn", "pc">>)

\* JSON.stringify(finalDb) up to white space
JsonDb(db) ==
  Obj([i \in 1..Len(db.v) |->
         [key |-> db.v[i].key,
          val |-> IF IsObj(db.v[i].val)
                  THEN Obj([j \in 1..Len(db.v[i].val.v) |->
                              [key |-> db.v[i].val.v[j].key,
                               val |-> JsonDevice(db.v[i].val.v[j].val)]])
                  ELSE db.v[i].val]])

(***************************************************************************)
(* Inputs                                                                  *)
(***************************************************************************)
\* bounds of the model
MaxCC == 2

k_BOSS == <<"B","O","S","S">>
k_roland == <<"r","o","l","a","n","d">>
k_roland_boss == <<"r","o","l","a","n","d","_","b","o","s","s">>
k_K == <<"K">>
k_K_M == <<"K","_","M">>
k_VirusA == <<"V","i","r","u","s"," ","A">>
k_virus_a == <<"v","i","r","u","s","_","a">>
k_M_1 == <<"M","_","1">>
k_1 == <<"1">>

\* merge.js's literal tables, cut to the entries a key of the model can reach
LegacyTables ==
  [manufacturerMapping |->
     Obj(<<[key |-> k_roland_boss, val |-> Str(k_BOSS)],
           [key |-> k_roland, val |-> Str(k_BOSS)]>>),
   deviceMapping |-> Obj(<<[key |-> k_virus_a, val |-> Str(k_VirusA)]>>),
   brandDisplayNames |-> EmptyObj,
   modelDisplayNames |-> EmptyObj]

BossBrand ==
  [name |-> Str(k_BOSS), value |-> Str(k_roland),
   models |-> Arr(<<[name |-> Str(k_VirusA), value |-> Str(k_virus_a)]>>)]
\* a brand entry without a name: brandName.toLowerCase() throws on it
NamelessBrand == [name |-> Undef, value |-> Str(k_K), models |-> Undef]
\* a second brand of the same name, its value and its model's value written
\* with uppercase letters
k_One == <<"O","n","e">>
UpperBrand ==
  [name |-> Str(k_BOSS), value |-> Str(k_K),
   models |-> Arr(<<[name |-> Str(k_One), value |-> Str(k_M_1)]>>)]
\* mapping.json: one brand with one model; two brands of one name; a file
\* whose second brand entry is malformed; or no readable file
MappingFiles ==
  {[readable |-> TRUE, brands |-> <<BossBrand>>],
   [readable |-> TRUE, brands |-> <<BossBrand, UpperBrand>>],
   [readable |-> TRUE, brands |-> <<BossBrand, NamelessBrand>>],
   [readable |-> FALSE, brands |-> <<>>]}

\* raw parameters and devices as a database file holds them
RawCC(tag, i) ==
  [name |-> Str(<<tag>>), description |-> Undef, usage |-> Undef, curve |-> Undef,
   value |-> Num(i), min |-> Undef, max |-> Undef, type |-> Undef]
RawDevice(cc, pcv, ins) ==
  [t |-> "device", brand |-> Undef, device_name |-> Undef, midi_thru |-> Undef,
   midi_in |-> Undef, midi_clock |-> Undef, phantom_power |-> Undef,
   midi_channel |-> IF ins = Undef THEN Undef ELSE MidiChannel(ins),
   instructions |-> Undef, cc |-> cc, nrpn |-> Undef, pc |-> pcv]
RawNRPN(tag) ==
  [name |-> Str(<<tag>>), description |-> Undef, usage |-> Undef, curve |-> Undef,
   msb |-> Num(1), lsb |-> Str(<<"2">>), min |-> Undef, max |-> Undef, type |-> Undef]
CCList(tag, n) == Arr([i \in 1..n |-> RawCC(tag, i)])
NRPNList(tag, n) == Arr([i \in 1..n |-> RawNRPN(tag)])
PcObject == Obj(<<[key |-> s_description, val |-> Str(<<"b">>)]>>)

\* the devices of a database written by `tag`: cc lists of every length up
\* to MaxCC
Devices(tag) == {RawDevice(CCList(tag, n), Undef, Undef) : n \in 0..MaxCC}

BrandKeys == {k_BOSS, k_roland, k_K, k_K_M}
DeviceKeys == {k_VirusA, k_virus_a, k_M_1, k_1}

Entry(k, x) == [key |-> k, val |-> x]
OneDevice(b, d, dev) == Entry(b, Obj(<<Entry(d, dev)>>))

\* a database with one brand holding one device
PairDbs(tag) ==
  {Obj(<<OneDevice(b, d, dev)>>) : b \in BrandKeys, d \in DeviceKeys, dev \in Devices(tag)}

\* a database with two brands, the first holding two devices
WideDbs(tag) ==
  {Obj(<<Entry(b[1], Obj(<<Entry(d[1], dev[1]), Entry(d[2], dev[2])>>)),
         Entry(b[2], EmptyObj)>>) :
     b \in {x \in BrandKeys \X BrandKeys : x[1] # x[2]},
     d \in {<<k_VirusA, k_virus_a>>, <<k_M_1, k_1>>},
     dev \in {<<RawDevice(CCList(tag, 1), Undef, Undef),
               RawDevice(CCList(tag, n), Undef, Undef)>> : n \in 1..MaxCC}}

\* devices with a cc list and an nrpn list, and databases of one brand that
\* hold one of them, or two of them under two spellings of one device key
ListedDevices(tag) ==
  {[RawDevice(CCList(tag, n), Undef, Undef) EXCEPT !.nrpn = NRPNList(tag, m)] :
     n \in 0..MaxCC, m \in 0..1}
GroupDbs(tag) ==
  {Obj(<<OneDevice(k_K, k_VirusA, dev)>>) : dev \in ListedDevices(tag)}
GroupWideDbs(tag) ==
  {Obj(<<Entry(k_K, Obj(<<Entry(k_virus_a, x), Entry(k_VirusA, y)>>))>>) :
     x \in ListedDevices(tag), y \in ListedDevices(tag)}

\* databases with metadata, with a brand that is null, with a device that is
\* null, and with a value that is no object in a brand's place
MetaEntries == <<Entry(s_version, Str(<<"1",".","0">>)), Entry(s_generatedAt, Str(<<"T">>))>>
NamedDevice(tag) ==
  [RawDevice(CCList(tag, 1), Undef, Str(<<tag, tag>>)) EXCEPT
     !.brand = Str(<<"Z">>), !.device_name = Str(<<"Y">>), !.midi_thru = Bool(TRUE)]
OddDbs(tag) ==
  {Obj(MetaEntries \o <<OneDevice(k_BOSS, k_VirusA, RawDevice(CCList(tag, 1), Undef, Undef))>>),
   Obj(<<Entry(s_version, Str(<<"2">>))>>),
   Obj(<<OneDevice(k_roland, k_virus_a, RawDevice(CCList(tag, 1), PcObject, Str(<<tag>>)))>>),
   Obj(<<OneDevice(k_roland, k_virus_a,
                   RawDevice(Undef, Obj(<<>>), Undef))>>),
   Obj(<<OneDevice(k_BOSS, k_virus_a, NamedDevice(tag))>>),
   Obj(<<Entry(k_K, Null)>>),
   Obj(<<Entry(k_K, Obj(<<Entry(k_1, Null)>>))>>),
   EmptyObj}

Malformed == [t |-> "malformed"]

f_db1 == <<"m","i","d","i","-","d","a","t","a","b","a","s","e","-","v","1",".","j","s","o","n">>
f_db1_min == <<"m","i","d","i","-","d","a","t","a","b","a","s","e","-","v","1",".","m","i","n",".","j","s","o","n">>
f_all == <<"a","l","l",".","j","s","o","n">>
Listing == {f_db1, f_db1_min, f_all}

TargetPairDbs ==
  {Obj(<<OneDevice(b, d, dev)>>) :
     b \in {k_BOSS, k_K}, d \in {k_VirusA, k_M_1}, dev \in Devices("t")}

SmallDbs(tag) ==
  {EmptyObj, Obj(<<OneDevice(k_K, k_VirusA, RawDevice(CCList(tag, 1), Undef, Undef))>>)}

NoMappingFile == [readable |-> FALSE, brands |-> <<>>]

\* what a run starts from: the script and mapping.json; merge.js reads no
\* mapping.json
Configs == {<<Legacy, NoMappingFile>>} \cup {<<Mapped, m>> : m \in MappingFiles}

(***************************************************************************)
(* The run of a merge script                                               *)
(***************************************************************************)
VARIABLES
  script,               \* which of the two merge scripts runs
  dirFiles,             \* the names in the script's directory
  mapping,              \* mapping.json
  targetFile,           \* the latest midi-database-v*.json
  sourceFile,           \* all.json
  pc,                   \* the statement the run is at
  tables,               \* the four alias tables
  targetDb,
  sourceDb,
  metadata,
  manufacturers,
  normalizedDeviceMap,
  finalDb,
  idx,                  \* the position of the forEach the run is in
  mergeCalls,           \* the mergeDevices calls made, by the variants merged
  outFiles,             \* the output files written by this run
  console,              \* what the run printed: errors and the report
  exitCode,             \* the process's exit status once it has ended
  call,                 \* a function applied on its own, and
  result                \* what it returned

inputVars == <<script, dirFiles, mapping, targetFile, sourceFile>>
engineVars == <<targetDb, sourceDb, metadata, manufacturers, normalizedDeviceMap,
                finalDb, idx, mergeCalls>>
vars == <<script, dirFiles, mapping, targetFile, sourceFile, pc, tables, targetDb,
          sourceDb, metadata, manufacturers, normalizedDeviceMap, finalDb, idx,
          mergeCalls, outFiles, console, exitCode, call, result>>

OutputNames == {"midi.json", "midi.min.json", "midi.min.json.gz", "midi-database-version.json"}
Old == [t |-> "old"]
NoCall == [fn |-> "none"]

\* everything but the inputs, before the first statement
Fresh ==
  /\ pc = "findLatest"
  /\ tables = NoMappings
  /\ targetDb = Undef /\ sourceDb = Undef /\ metadata = Undef
  /\ manufacturers = Undef /\ normalizedDeviceMap = Undef /\ finalDb = Undef
  /\ idx = 0
  /\ mergeCalls = {}
  /\ outFiles = [f \in OutputNames |-> Old]
  /\ console = <<>>
  /\ exitCode = Undef
  /\ call = NoCall /\ result = Undef

\* the directory listing and the two database files of a run
InitFiles ==
  \/ /\ dirFiles = Listing
     /\ \/ targetFile \in TargetPairDbs /\ sourceFile \in PairDbs("s")
        \/ targetFile \in SmallDbs("t") /\ sourceFile \in WideDbs("s")
        \/ targetFile \in WideDbs("t") /\ sourceFile \in SmallDbs("s")
        \/ targetFile \in GroupDbs("t") /\ sourceFile \in GroupWideDbs("s")
        \/ /\ targetFile \in OddDbs("t") \cup {Malformed}
           /\ sourceFile \in OddDbs("s") \cup {Malformed}
  \/ /\ dirFiles = {f_db1_min, f_all}
     /\ targetFile = Malformed /\ sourceFile = Malformed

Init ==
  /\ \E c \in Configs : script = c[1] /\ mapping = c[2]
  /\ InitFiles
  /\ Fresh

\* const targetDbPath = findLatestDatabase(): outside the try block, so its
\* exception ends the process
FindLatest ==
  /\ pc = "findLatest"
  /\ IF DbFiles(dirFiles) = {}
     THEN pc' = "exit" /\ exitCode' = Num(1)
          /\ console' = Append(console, [t |-> "uncaught"])
     ELSE pc' = "loadMappings" /\ UNCHANGED <<exitCode, console>>
  /\ UNCHANGED <<inputVars, engineVars, tables, outFiles, call, result>>

\* the alias tables: loaded from mapping.json, or merge.js's literals
LoadMappings ==
  /\ pc = "loadMappings"
  /\ tables' = IF script = Mapped THEN loadMappings(mapping) ELSE LegacyTables
  /\ console' = IF script = Mapped /\ LoadThrows(mapping)
                THEN Append(console, [t |-> "error", at |-> "loadMappings"])
                ELSE console
  /\ pc' = "readTarget"
  /\ UNCHANGED <<inputVars, engineVars, outFiles, exitCode, call, result>>

\* const targetDb = JSON.parse(fs.readFileSync(targetDbPath, 'utf8'))
ReadTarget ==
  /\ pc = "readTarget"
  /\ IF targetFile = Malformed
     THEN pc' = "catch" /\ UNCHANGED targetDb
     ELSE pc' = "readSource" /\ targetDb' = targetFile
  /\ UNCHANGED <<inputVars, tables, sourceDb, metadata, manufacturers,
                 normalizedDeviceMap, finalDb, idx, mergeCalls, outFiles, console,
                 exitCode, call, result>>

\* a read of all.json that takes a file it cannot parse for an empty database
ReadSourceLenient ==
  /\ pc = "readSource"
  /\ pc' = "metadata"
  /\ sourceDb' = IF sourceFile = Malformed THEN EmptyObj ELSE sourceFile
  /\ UNCHANGED <<inputVars, tables, targetDb, metadata, manufacturers,
                 normalizedDeviceMap, finalDb, idx, mergeCalls, outFiles, console,
                 exitCode, call, result>>

\* const sourceDb = JSON.parse(fs.readFileSync(sourceDbPath, 'utf8'))
ReadSource ==
  /\ pc = "readSource"
  /\ IF sourceFile = Malformed
     THEN pc' = "catch" /\ UNCHANGED sourceDb
     ELSE pc' = "metadata" /\ sourceDb' = sourceFile
  /\ UNCHANGED <<inputVars, tables, targetDb, metadata, manufacturers,
                 normalizedDeviceMap, finalDb, idx, mergeCalls, outFiles, console,
                 exitCode, call, result>>

\* the metadata copy and the two empty collections
PreserveMetadata ==
  /\ pc = "metadata"
  /\ metadata' = PreservedMetadata(targetDb)
  /\ manufacturers' = EmptyObj
  /\ normalizedDeviceMap' = EmptyObj
  /\ idx' = 1
  /\ pc' = "target"
  /\ UNCHANGED <<inputVars, tables, targetDb, sourceDb, finalDb, mergeCalls,
                 outFiles, console, exitCode, call, result>>

\* one iteration of Object.entries(targetDb).forEach
TargetBrand ==
  /\ pc = "target"
  /\ idx <= Len(targetDb.v)
  /\ LET brandKey == targetDb.v[idx].key
         r == BrandLoop(script, "target", tables, manufacturers, normalizedDeviceMap,
                        brandKey, targetDb.v[idx].val)
     IN IF IsReserved(brandKey)
        THEN idx' = idx + 1 /\ UNCHANGED <<pc, manufacturers, normalizedDeviceMap>>
        ELSE IF r.thrown
        THEN pc' = "catch" /\ UNCHANGED <<idx, manufacturers, normalizedDeviceMap>>
        ELSE /\ idx' = idx + 1
             /\ manufacturers' = r.m
             /\ normalizedDeviceMap' = r.n
             /\ UNCHANGED pc
  /\ UNCHANGED <<inputVars, tables, targetDb, sourceDb, metadata, finalDb, mergeCalls,
                 outFiles, console, exitCode, call, result>>

TargetDone ==
  /\ pc = "target"
  /\ idx > Len(targetDb.v)
  /\ pc' = "source"
  /\ idx' = 1
  /\ UNCHANGED <<inputVars, tables, targetDb, sourceDb, metadata, manufacturers,
                 normalizedDeviceMap, finalDb, mergeCalls, outFiles, console,
                 exitCode, call, result>>

\* one iteration of Object.entries(sourceDb).forEach: no key is skipped, and a
\* pc object of a device is replaced in sourceDb itself
SourceBrand ==
  /\ pc = "source"
  /\ idx <= Len(sourceDb.v)
  /\ LET brandKey == sourceDb.v[idx].key
         brandData == sourceDb.v[idx].val
         r == BrandLoop(script, "source", tables, manufacturers, normalizedDeviceMap,
                        brandKey, brandData)
     IN IF r.thrown
        THEN pc' = "catch" /\ UNCHANGED <<idx, manufacturers, normalizedDeviceMap, sourceDb>>
        ELSE /\ idx' = idx + 1
             /\ manufacturers' = r.m
             /\ normalizedDeviceMap' = r.n
             /\ sourceDb' = IF IsObj(brandData)
                            THEN Put(sourceDb, brandKey, Obj(r.d)) ELSE sourceDb
             /\ UNCHANGED pc
  /\ UNCHANGED <<inputVars, tables, targetDb, metadata, finalDb, mergeCalls,
                 outFiles, console, exitCode, call, result>>

\* const finalDb = { ...metadata }
SourceDone ==
  /\ pc = "source"
  /\ idx > Len(sourceDb.v)
  /\ finalDb' = metadata
  /\ pc' = "build"
  /\ idx' = 1
  /\ UNCHANGED <<inputVars, tables, targetDb, sourceDb, metadata, manufacturers,
                 normalizedDeviceMap, mergeCalls, outFiles, console, exitCode,
                 call, result>>

\* one iteration of Object.entries(manufacturers).forEach
BuildStep ==
  /\ pc = "build"
  /\ idx <= Len(manufacturers.v)
  /\ LET r == BuildBrand(finalDb, normalizedDeviceMap, manufacturers.v[idx].val) IN
       /\ finalDb' = r.finalDb
       /\ normalizedDeviceMap' = r.n
       /\ mergeCalls' = mergeCalls \cup r.calls
  /\ idx' = idx + 1
  /\ UNCHANGED <<inputVars, pc, tables, targetDb, sourceDb, metadata, manufacturers,
                 outFiles, console, exitCode, call, result>>

BuildDone ==
  /\ pc = "build"
  /\ idx > Len(manufacturers.v)
  /\ pc' = "writePretty"
  /\ UNCHANGED <<inputVars, engineVars, tables, outFiles, console, exitCode, call, result>>

\* fs.writeFileSync(path, content); the file system is taken to accept the write
WriteFile(at, name, content, next) ==
  /\ pc = at
  /\ outFiles' = [outFiles EXCEPT ![name] = content]
  /\ pc' = next
  /\ UNCHANGED <<inputVars, engineVars, tables, console, exitCode, call, result>>

WritePretty ==
  WriteFile("writePretty", "midi.json", [t |-> "pretty", json |-> JsonDb(finalDb)],
            "writeMinified")
WriteMinified ==
  WriteFile("writeMinified", "midi.min.json", [t |-> "minified", json |-> JsonDb(finalDb)],
            "writeGzip")
WriteGzip ==
  WriteFile("writeGzip", "midi.min.json.gz", [t |-> "gzip", json |-> JsonDb(finalDb)],
            IF script = Mapped THEN "versionInfo" ELSE "report")

\* the version file's object literal reads brandCount, deviceCount, ccCount
\* and the sizes, all declared with let/const further down the same block:
\* the read throws a ReferenceError and nothing is written
WriteVersionInfo ==
  /\ pc = "versionInfo"
  /\ pc' = "catch"
  /\ UNCHANGED <<inputVars, engineVars, tables, outFiles, console, exitCode, call, result>>

\* the number of devices and of parameters under the brands of finalDb
BrandEntries(db) == SelectSeq(db.v, LAMBDA e : ~IsReserved(e.key))
RECURSIVE Sum(_)
Sum(ns) == IF ns = <<>> THEN 0 ELSE Head(ns) + Sum(Tail(ns))
DevicesOf(e) == Len(ObjectEntries(e.val))
ListTotal(e, f) ==
  Sum([i \in 1..Len(ObjectEntries(e.val)) |-> LengthOf(ObjectEntries(e.val)[i].val[f])])
CountDevices(es) == Sum([i \in 1..Len(es) |-> DevicesOf(es[i])])
CountParams(es, f) == Sum([i \in 1..Len(es) |-> ListTotal(es[i], f)])

Statistics(final, target, source) ==
  [t |-> "report",
   brands |-> Len(BrandEntries(final)),
   devices |-> CountDevices(BrandEntries(final)),
   cc |-> CountParams(BrandEntries(final), "cc"),
   nrpn |-> CountParams(BrandEntries(final), "nrpn"),
   pc |-> CountParams(BrandEntries(final), "pc"),
   targetBrands |-> Len(BrandEntries(target)),
   targetDevices |-> CountDevices(BrandEntries(target)),
   sourceBrands |-> Len(source.v),
   sourceDevices |-> CountDevices(source.v)]

\* merge.js: the sizes, the counts and the printed report
Report ==
  /\ pc = "report"
  /\ console' = Append(console, Statistics(finalDb, targetDb, sourceDb))
  /\ pc' = "exit"
  /\ exitCode' = Num(0)
  /\ UNCHANGED <<inputVars, engineVars, tables, outFiles, call, result>>

\* catch (error) { console.error(...) }: the script ends normally
Catch ==
  /\ pc = "catch"
  /\ console' = Append(console, [t |-> "error", at |-> "run"])
  /\ pc' = "exit"
  /\ exitCode' = Num(0)
  /\ UNCHANGED <<inputVars, engineVars, tables, outFiles, call, result>>

Next ==
  \/ FindLatest \/ LoadMappings \/ ReadTarget \/ ReadSource \/ PreserveMetadata
  \/ TargetBrand \/ TargetDone \/ SourceBrand \/ SourceDone \/ BuildStep \/ BuildDone
  \/ WritePretty \/ WriteMinified \/ WriteGzip \/ WriteVersionInfo \/ Report \/ Catch

Spec == Init /\ [][Next]_vars

(***************************************************************************)
(* Properties of a run                                                     *)
(***************************************************************************)
\* the run has built finalDb and has written nothing yet
Resolved == pc = "writePretty"

\* a database holding exactly one brand with exactly one device
SingleRecord(db) ==
  /\ IsObj(db) /\ Len(db.v) = 1
  /\ ~IsReserved(db.v[1].key)
  /\ IsObj(db.v[1].val) /\ Len(db.v[1].val.v) = 1
  /\ db.v[1].val.v[1].val.t = "device"

BrandKeyOf(db) == db.v[1].key
DeviceKeyOf(db) == db.v[1].val.v[1].key
DeviceOf(db) == db.v[1].val.v[1].val

Longest(m, n) == IF m >= n THEN m ELSE n

\* the target record and the source record name the same canonical brand and
\* the same canonical device
SameIdentity ==
  /\ SingleRecord(targetFile) /\ SingleRecord(sourceFile)
  /\ ResolveBrand(script, tables, BrandKeyOf(targetFile)).canonical
       = ResolveBrand(script, tables, BrandKeyOf(sourceFile)).canonical
  /\ ResolveDevice(script, tables, DeviceKeyOf(targetFile)).canonical
       = ResolveDevice(script, tables, DeviceKeyOf(sourceFile)).canonical

\* C1: a target record and a source record whose brand keys map to the same
\* canonical brand and whose device keys map to the same canonical device give
\* exactly one output brand, keyed by the brand's display name, holding
\* exactly one device, keyed by the model's display name, whose cc list is as
\* long as the longer of the two input cc lists.
C1_OneMergedEntry ==
  (Resolved /\ SameIdentity) =>
    LET brand == ResolveBrand(script, tables, BrandKeyOf(targetFile))
        model == DeviceDisplayName(script, tables, brand.normalized,
                                   ResolveDevice(script, tables, DeviceKeyOf(targetFile)))
        out == BrandEntries(finalDb)
    IN /\ Len(out) = 1
       /\ out[1].key = brand.canonical
       /\ Len(out[1].val.v) = 1
       /\ out[1].val.v[1].key = model
       /\ LengthOf(out[1].val.v[1].val.cc)
            = Longest(LengthOf(DeviceOf(targetFile).cc), LengthOf(DeviceOf(sourceFile).cc))

\* the variants of the bucket a manufacturer's device entry names
BucketOf(deviceEntry) == Get(normalizedDeviceMap, deviceEntry.val.v).v

\* C2: no mergeDevices call joins two records whose model names differ, and
\* in a bucket that holds records of different model names every one of the
\* names has its own device entry under the brand in the output.
C2_ModelsKeptApart ==
  Resolved =>
    /\ \A c \in mergeCalls : c.primaryName = c.secondaryName
    /\ \A i \in 1..Len(manufacturers.v) :
         LET data == manufacturers.v[i].val IN
         \A d \in 1..Len(data.devices.v) :
           LET bucket == BucketOf(data.devices.v[d]) IN
           (\E x, y \in 1..Len(bucket) : ModelNameOf(bucket[x]) # ModelNameOf(bucket[y]))
             => \A x \in 1..Len(bucket) :
                  Has(Get(finalDb, PropertyKey(data.canonicalName)), ModelNameOf(bucket[x]))

\* the program-change entry the pc object {description: d} stands for
ProgramChangeOf(pcData) ==
  [name |-> Str(s_ProgramChange), value |-> Num(0), min |-> Num(0), max |-> Num(127),
   description |-> IF Truthy(Get(pcData, s_description))
                   THEN Get(pcData, s_description) ELSE Str(<<>>)]

IsProgramChange(list, pcData) ==
  /\ IsArr(list) /\ Len(list.v) = 1
  /\ \A f \in {"name", "value", "min", "max", "description"} :
       list.v[1][f] = ProgramChangeOf(pcData)[f]

\* C3: a source device whose raw pc is an object {description: d} has, once
\* the source loop has standardized it, a pc list of the one entry
\* {name: "Program Change", value: 0, min: 0, max: 127, description: d}.
C3_PcObjectKept ==
  (pc = "build" /\ IsObj(sourceFile)) =>
    \A i \in 1..Len(sourceFile.v) :
      IsObj(sourceFile.v[i].val) =>
        \A j \in 1..Len(sourceFile.v[i].val.v) :
          LET raw == sourceFile.v[i].val.v[j] IN
          (raw.val.t = "device" /\ IsObj(raw.val.pc)) =>
            \E b \in 1..Len(normalizedDeviceMap.v) :
              \E x \in 1..Len(normalizedDeviceMap.v[b].val.v) :
                LET variant == normalizedDeviceMap.v[b].val.v[x] IN
                /\ variant.brandKey = sourceFile.v[i].key
                /\ variant.deviceKey = raw.key
                /\ IsProgramChange(variant.data.pc, raw.val.pc)

\* C5: the output's version and generatedAt are the target's whenever the
\* target defines them, no manufacturer bucket is made of a top-level key
\* named version or generatedAt of either database, and the output holds
\* nothing under such a key but the value copied from the target.
C5_MetadataPassthrough ==
  Resolved =>
    /\ \A r \in 1..Len(reservedKeys) :
         Get(targetFile, reservedKeys[r]) # Undef
           => Get(finalDb, reservedKeys[r]) = Get(targetFile, reservedKeys[r])
    /\ \A i \in 1..Len(manufacturers.v) :
         \A x \in 1..Len(manufacturers.v[i].val.variants) :
           ~IsReserved(manufacturers.v[i].val.variants[x])
    /\ \A e \in 1..Len(finalDb.v) :
         IsReserved(finalDb.v[e].key)
           => /\ Has(targetFile, finalDb.v[e].key)
              /\ finalDb.v[e].val = Get(targetFile, finalDb.v[e].key)

\* the three artifacts of a run
Artifacts == {"midi.json", "midi.min.json", "midi.min.json.gz"}

\* every device of the i-th top-level entry of a database has its variant in
\* a bucket
EntryResolved(db, i) ==
  /\ ~EntriesThrows(db.v[i].val)
  /\ \A j \in 1..Len(ObjectEntries(db.v[i].val)) :
       \E b \in 1..Len(normalizedDeviceMap.v) :
         \E x \in 1..Len(normalizedDeviceMap.v[b].val.v) :
           /\ normalizedDeviceMap.v[b].val.v[x].brandKey = db.v[i].key
           /\ normalizedDeviceMap.v[b].val.v[x].deviceKey
                = ObjectEntries(db.v[i].val)[j].key

\* C10: an artifact is written only after both databases were parsed and
\* every record of both was resolved into finalDb; a run in which a parse or
\* a step of the resolution fails leaves all three artifacts as they were.
C10_NoPartialOutput ==
  (\E f \in Artifacts : outFiles[f] # Old) =>
    /\ targetFile # Malformed /\ sourceFile # Malformed
    /\ targetDb # Undef /\ sourceDb # Undef
    /\ \A i \in 1..Len(targetDb.v) :
         ~IsReserved(targetDb.v[i].key) => EntryResolved(targetDb, i)
    /\ \A i \in 1..Len(sourceDb.v) : EntryResolved(sourceDb, i)
    /\ finalDb # Undef
    /\ idx = Len(manufacturers.v) + 1

\* a run that parsed both databases, failed while resolving them and ended
\* with the three artifacts untouched
C10_FailedRunWritesNothing ==
  /\ pc = "exit"
  /\ targetDb # Undef /\ sourceDb # Undef
  /\ finalDb = Undef
  /\ \A f \in Artifacts : outFiles[f] = Old

\* the statistics report is among what the run printed
ReportPrinted == \E i \in 1..Len(console) : console[i].t = "report"

\* C11: a run of the mapping.json script that completed the resolution and
\* wrote the three artifacts has, when it ends, written the version
\* information file and printed the statistics report.
C11_VersionFileAndReport ==
  (script = Mapped /\ pc = "exit" /\ \A f \in Artifacts : outFiles[f] # Old) =>
    /\ outFiles["midi-database-version.json"] # Old
    /\ ReportPrinted

\* every brand of the database holds device objects only; the target's
\* version and generatedAt are no brands
DevicesOnly(db, side) ==
  /\ IsObj(db)
  /\ \A i \in 1..Len(db.v) :
       (side = "target" /\ IsReserved(db.v[i].key))
         \/ /\ IsObj(db.v[i].val)
            /\ \A j \in 1..Len(db.v[i].val.v) : db.v[i].val.v[j].val.t = "device"

\* C12: when mapping.json cannot be read or a brand entry of it is malformed,
\* the four tables are empty, every brand key and device key of the two
\* databases resolves to itself with the id lowercase(key) with whitespace
\* runs as underscores, and a run on two databases of device objects writes
\* the three artifacts.
C12_NoMappingStillWrites ==
  (script = Mapped /\ LoadThrows(mapping)) =>
    /\ pc \notin {"findLatest", "loadMappings"} => tables = NoMappings
    /\ pc \in {"build", "exit"} /\ manufacturers # Undef =>
         /\ \A i \in 1..Len(manufacturers.v) :
              LET m == manufacturers.v[i] IN
              /\ m.key = NormalForm(m.val.variants[1])
              /\ m.val.canonicalName = Str(m.val.variants[1])
         /\ \A b \in 1..Len(normalizedDeviceMap.v) :
              \A x \in 1..Len(normalizedDeviceMap.v[b].val.v) :
                LET variant == normalizedDeviceMap.v[b].val.v[x] IN
                /\ variant.canonicalBrandName = Str(variant.brandKey)
                /\ ResolveDevice(script, tables, variant.deviceKey)
                     = [normalized |-> NormalForm(variant.deviceKey),
                        canonical |-> variant.deviceKey]
                /\ normalizedDeviceMap.v[b].key
                     = DeviceId(NormalForm(variant.brandKey), NormalForm(variant.deviceKey))
    /\ (pc = "exit" /\ DbFiles(dirFiles) # {}
          /\ DevicesOnly(targetFile, "target") /\ DevicesOnly(sourceFile, "source"))
         => \A f \in Artifacts : outFiles[f] # Old /\ outFiles[f].json = JsonDb(finalDb)

\* a run whose mapping.json holds a malformed brand entry resolved a key with
\* uppercase letters and a space and wrote the three artifacts
C12_MalformedMappingRunWrote ==
  /\ script = Mapped /\ mapping.readable /\ LoadThrows(mapping)
  /\ pc = "exit"
  /\ \A f \in Artifacts : outFiles[f] # Old
  /\ \E b \in 1..Len(normalizedDeviceMap.v) :
       /\ normalizedDeviceMap.v[b].val.v[1].deviceKey = k_VirusA
       /\ normalizedDeviceMap.v[b].val.v[1].brandKey = k_BOSS

\* what one loop makes of a database on its own
LoopOver(side, db) ==
  ProcessDatabase(script, side, tables, db, 1,
                  [m |-> EmptyObj, n |-> EmptyObj, thrown |-> FALSE])

\* the records a loop took from the database `from`, each with the bucket it
\* was pushed to and the model name it is grouped under
RecordsOf(side, db, from) ==
  LET n == LoopOver(side, db).n IN
  UNION {{[from |-> from,
           brandKey |-> n.v[b].val.v[x].brandKey,
           deviceKey |-> n.v[b].val.v[x].deviceKey,
           bucket |-> n.v[b].key,
           model |-> ModelNameOf(n.v[b].val.v[x])] : x \in 1..Len(n.v[b].val.v)} :
         b \in 1..Len(n.v)}

RecordId(r) == [from |-> r.from, brandKey |-> r.brandKey, deviceKey |-> r.deviceKey]

\* the pairs of records that share an identity bucket, and a model group
SameBucket(records) ==
  {<<RecordId(x[1]), RecordId(x[2])>> :
     x \in {y \in records \X records : y[1].bucket = y[2].bucket}}
SameGroup(records) ==
  {<<RecordId(x[1]), RecordId(x[2])>> :
     x \in {y \in records \X records :
              y[1].bucket = y[2].bucket /\ y[1].model = y[2].model}}

\* the grouping of the run on (first, second) as target and source
GroupingOf(first, second) ==
  LET records == RecordsOf("target", first[1], first[2])
                   \cup RecordsOf("source", second[1], second[2])
  IN [bucketed |-> SameBucket(records), grouped |-> SameGroup(records)]

\* C13: the two databases of a run, taken as target and source or as source
\* and target, give the same pairs of records sharing an identity bucket and
\* the same pairs of records sharing a model group.
C13_OrderIndependentGrouping ==
  (pc = "build" /\ idx = 1
     /\ ~LoopOver("target", sourceFile).thrown /\ ~LoopOver("source", targetFile).thrown)
    => GroupingOf(<<targetFile, "A">>, <<sourceFile, "B">>)
         = GroupingOf(<<sourceFile, "B">>, <<targetFile, "A">>)

\* C15: the final database of a run is the final database of a second run
\* on the same alias tables, whether that run parses the two files again or
\* takes the two parsed databases as the first run left them in memory:
\* same brand keys, device keys and records, in the same order.
C15_Deterministic ==
  Resolved =>
    /\ finalDb = Resolve(script, tables, targetFile, sourceFile)
    /\ finalDb = Resolve(script, tables, targetDb, sourceDb)

\* a completed resolution whose source loop replaced a pc object in the
\* parsed source database, and whose output holds a device
C15_InputsChangedInMemory ==
  /\ Resolved
  /\ sourceDb # sourceFile
  /\ \E i \in 1..Len(finalDb.v) : IsObj(finalDb.v[i].val) /\ Len(finalDb.v[i].val.v) > 0

\* the positions in a bucket of the variants grouped under a model name
GroupMembers(bucket, modelName) ==
  {x \in 1..Len(bucket) : ModelNameOf(bucket[x]) = modelName}

\* cc + nrpn + pc entries of a variant
Total(variant) ==
  Len(variant.data.cc.v) + Len(variant.data.nrpn.v) + Len(variant.data.pc.v)

\* x comes before y in the sorted order: more entries, or as many and
\* encountered earlier
Before(bucket, x, y) ==
  \/ Total(bucket[x]) > Total(bucket[y])
  \/ Total(bucket[x]) = Total(bucket[y]) /\ x < y

SeedOf(bucket, members) ==
  CHOOSE x \in members : \A y \in members \ {x} : Before(bucket, x, y)

\* the member whose list f is of maximal length, the earliest in sorted
\* order among those
ListSource(bucket, members, f) ==
  CHOOSE x \in members :
    \A y \in members \ {x} :
      \/ Len(bucket[x].data[f].v) > Len(bucket[y].data[f].v)
      \/ /\ Len(bucket[x].data[f].v) = Len(bucket[y].data[f].v)
         /\ Before(bucket, x, y)

\* what the sort and fold make of one bucket
GroupsOut(data, deviceEntry) ==
  GroupLoop(GroupByName(BucketOf(deviceEntry), 1, EmptyObj), 1, data.canonicalName,
            [out |-> EmptyObj, bucket |-> BucketOf(deviceEntry), calls |-> {}],
            deviceEntry.val.v)

\* C16: in every model group the record every other record is merged into
\* is the one with the largest cc + nrpn + pc count, the first encountered
\* among equals, and the group's output record holds, as cc and as nrpn, the
\* whole list of the one record whose list is longest, the earliest in sorted
\* order among equally long ones.
C16_SeedAndLongestLists ==
  Resolved =>
    \A i \in 1..Len(manufacturers.v) :
      LET data == manufacturers.v[i].val IN
      \A d \in 1..Len(data.devices.v) :
        LET bucket == BucketOf(data.devices.v[d])
            r == GroupsOut(data, data.devices.v[d])
        IN \A x \in 1..Len(bucket) :
             LET modelName == ModelNameOf(bucket[x])
                 members == GroupMembers(bucket, modelName)
                 seed == SeedOf(bucket, members)
                 calls == {c \in mergeCalls : c.bucket = data.devices.v[d].val.v}
             IN /\ \A c \in calls :
                     c.primaryName = modelName => c.primary = VariantId(bucket[seed])
                /\ \A y \in members \ {seed} :
                     \E c \in calls : /\ c.primary = VariantId(bucket[seed])
                                      /\ c.secondary = VariantId(bucket[y])
                /\ \A f \in {"cc", "nrpn"} :
                     Get(r.out, modelName)[f]
                       = bucket[ListSource(bucket, members, f)].data[f]

\* a group of three records whose seed is not the first encountered and
\* whose output cc and nrpn lists come from two different records
C16_ListsFromTwoRecords ==
  /\ Resolved
  /\ \E i \in 1..Len(manufacturers.v) :
       LET data == manufacturers.v[i].val IN
       \E d \in 1..Len(data.devices.v) :
         LET bucket == BucketOf(data.devices.v[d])
             members == GroupMembers(bucket, ModelNameOf(bucket[1]))
         IN /\ Cardinality(members) = 3
            /\ SeedOf(bucket, members) # 1
            /\ ListSource(bucket, members, "cc") # ListSource(bucket, members, "nrpn")
            /\ Len(bucket[ListSource(bucket, members, "nrpn")].data.nrpn.v) > 0
            /\ \E y \in members \ {SeedOf(bucket, members)} :
                 Total(bucket[y]) = Total(bucket[SeedOf(bucket, members)])

\* the (normalized brand id, normalized device id) pair of a variant
IdentityOf(variant) ==
  <<ResolveBrand(script, tables, variant.brandKey).normalized,
    ResolveDevice(script, tables, variant.deviceKey).normalized>>

\* the variants of all buckets, each with the key of its bucket
Bucketed ==
  UNION {{[bucket |-> normalizedDeviceMap.v[b].key,
           variant |-> normalizedDeviceMap.v[b].val.v[x]] :
            x \in 1..Len(normalizedDeviceMap.v[b].val.v)} :
         b \in 1..Len(normalizedDeviceMap.v)}

\* C17: two records are in the same bucket exactly when their normalized
\* brand ids are equal and their normalized device ids are equal, and the
\* bucket read for brand b and device d holds records of the pair (b, d) only.
C17_BucketIsIdentity ==
  Resolved =>
    /\ \A r, q \in Bucketed :
         (r.bucket = q.bucket) <=> (IdentityOf(r.variant) = IdentityOf(q.variant))
    /\ \A i \in 1..Len(manufacturers.v) :
         LET data == manufacturers.v[i].val IN
         \A d \in 1..Len(data.devices.v) :
           LET bucket == BucketOf(data.devices.v[d]) IN
           \A x \in 1..Len(bucket) :
             IdentityOf(bucket[x]) = <<manufacturers.v[i].key, data.devices.v[d].key>>

\* the model groups of the run: a manufacturer, one of its device entries
\* and a model name of the bucket the entry names
ModelGroups ==
  UNION {UNION {{<<i, d, ModelNameOf(BucketOf(manufacturers.v[i].val.devices.v[d])[x])>> :
                   x \in 1..Len(BucketOf(manufacturers.v[i].val.devices.v[d]))} :
                d \in 1..Len(manufacturers.v[i].val.devices.v)} :
         i \in 1..Len(manufacturers.v)}

\* C18: every model group has its own output entry
\* finalDb[brand display name][model display name] holding the group's merged
\* record, the output has as many device entries as there are model groups,
\* and the metadata copied into the output is still there.
C18_OneSlotPerGroup ==
  Resolved =>
    /\ \A g \in ModelGroups :
         LET data == manufacturers.v[g[1]].val
             brandEntry == Get(finalDb, PropertyKey(data.canonicalName))
         IN /\ IsObj(brandEntry)
            /\ Get(brandEntry, g[3]) = Get(GroupsOut(data, data.devices.v[g[2]]).out, g[3])
    /\ CountDevices(BrandEntries(finalDb)) = Cardinality(ModelGroups)
    /\ \A r \in 1..Len(reservedKeys) :
         Get(finalDb, reservedKeys[r]) = Get(metadata, reservedKeys[r])

\* C19: every normalized brand that holds a device has an output brand entry
\* keyed by the canonical display name resolved for the first raw brand key
\* encountered for it, in both scripts and for brands of either database.
C19_BrandKeyedByCanonicalName ==
  Resolved =>
    \A i \in 1..Len(manufacturers.v) :
      LET data == manufacturers.v[i].val
          first == ResolveBrand(script, tables, data.variants[1])
      IN Len(data.devices.v) > 0 =>
           /\ first.normalized = manufacturers.v[i].key
           /\ data.canonicalName = Str(first.canonical)
           /\ IsObj(Get(finalDb, first.canonical))

\* the alias table's value for a raw key: the entry of the key, else of the
\* lowercased key; undefined for a key that matches neither
MappedTo(table, key) ==
  IF Truthy(Get(table, key)) THEN Get(table, key) ELSE Get(table, toLowerCase(key))

\* modelDisplayNames[brand value][device value], else the device value
ConfiguredModelName(brandValue, deviceValue) ==
  LET byBrand == Get(tables.modelDisplayNames, brandValue) IN
  IF Truthy(byBrand) /\ Truthy(Get(byBrand, deviceValue))
  THEN Get(byBrand, deviceValue)
  ELSE Str(deviceValue)

\* C20: in the mapping.json script a device whose key matched the device
\* alias table is named modelDisplayNames[brand value][device value] when
\* that entry exists and by the mapped device value otherwise, the brand
\* value being the alias table's value for the brand key (the key itself
\* when it matched nothing).
C20_ModelDisplayName ==
  (script = Mapped /\ Resolved) =>
    \A r \in Bucketed :
      LET brand == MappedTo(tables.manufacturerMapping, r.variant.brandKey)
          device == MappedTo(tables.deviceMapping, r.variant.deviceKey)
      IN Truthy(device) =>
           r.variant.canonicalDeviceName
             = ConfiguredModelName(IF Truthy(brand) THEN brand.v ELSE r.variant.brandKey,
                                   device.v)

\* the model values mapping.json configures under the brands of one value,
\* and under any brand
ModelValuesOf(brandValue) ==
  UNION {{mapping.brands[i].models.v[j].value.v :
            j \in 1..Len(mapping.brands[i].models.v)} :
         i \in {h \in 1..Len(mapping.brands) :
                  /\ mapping.brands[h].value = Str(brandValue)
                  /\ HasModels(mapping.brands[h])}}
AllModelValues ==
  UNION {ModelValuesOf(mapping.brands[i].value.v) : i \in 1..Len(mapping.brands)}

\* C21: a device key found under brand X never resolves to the value of a
\* model that mapping.json configures only under another brand: the value
\* the device alias table gives the key, from which the bucket's device id
\* is made, is a model value of brand X or of no brand at all.
C21_ModelsOfOwnBrandOnly ==
  (script = Mapped /\ Resolved /\ ~LoadThrows(mapping)) =>
    \A r \in Bucketed :
      LET brand == MappedTo(tables.manufacturerMapping, r.variant.brandKey)
          brandValue == IF Truthy(brand) THEN brand.v ELSE r.variant.brandKey
          device == MappedTo(tables.deviceMapping, r.variant.deviceKey)
      IN (Truthy(device) /\ r.bucket = DeviceId(NormalForm(brandValue), NormalForm(device.v)))
           => (device.v \in AllModelValues => device.v \in ModelValuesOf(brandValue))

\* C22: every device entry of the final database carries the key of its
\* brand entry as brand and its own key as device_name.
C22_EntriesStamped ==
  Resolved =>
    \A i \in 1..Len(finalDb.v) :
      IsObj(finalDb.v[i].val) =>
        \A j \in 1..Len(finalDb.v[i].val.v) :
          /\ finalDb.v[i].val.v[j].val.brand = Str(finalDb.v[i].key)
          /\ finalDb.v[i].val.v[j].val.device_name = Str(finalDb.v[i].val.v[j].key)

\* C23, in the fold of a model group: building finalDb leaves every record
\* stored in a bucket of normalizedDeviceMap as the two loops stored it.
C23_FoldKeepsBuckets ==
  [][BuildStep => normalizedDeviceMap' = normalizedDeviceMap]_vars

(***************************************************************************)
(* mergeDevices applied on its own                                        *)
(***************************************************************************)
\* a standardized record with the given lists and midi_channel
Record(cc, nrpn, pcList, channel) ==
  [t |-> "standard", brand |-> Str(k_K), device_name |-> Str(k_1),
   midi_thru |-> Bool(FALSE), midi_in |-> Str(<<>>), midi_clock |-> Bool(FALSE),
   phantom_power |-> Str(s_None), midi_channel |-> channel,
   instructions |-> Str(<<>>), cc |-> cc, nrpn |-> nrpn, pc |-> pcList]

\* lists that are missing, empty, or of 1..MaxCC entries written by `tag`
Lists(tag) ==
  {Undef} \cup {Arr([i \in 1..n |-> StdCC(RawCC(tag, i))]) : n \in 0..MaxCC}

\* a midi_channel that is missing, or holds instructions of length 0, 1 or 2
Channels(tag) ==
  {Undef, MidiChannel(Str(<<>>)), MidiChannel(Str(<<tag>>)), MidiChannel(Str(<<tag, tag>>))}

Records(tag) ==
  {Record(cc, nrpn, pcList, channel) :
     cc \in Lists(tag),
     nrpn \in {Undef, Arr(<<StdNRPN([RawCC(tag, 1) EXCEPT !.value = Undef]
                                      @@ [msb |-> Num(1), lsb |-> Num(2)])>>)},
     pcList \in {Arr(<<>>), Arr(<<StdCC(RawCC(tag, 0))>>)},
     channel \in Channels(tag)}

\* the variables of a run, at rest while a function is applied on its own
AtRest ==
  /\ dirFiles = Listing
  /\ targetFile = EmptyObj /\ sourceFile = EmptyObj
  /\ targetDb = Undef /\ sourceDb = Undef /\ metadata = Undef
  /\ manufacturers = Undef /\ normalizedDeviceMap = Undef /\ finalDb = Undef
  /\ idx = 0
  /\ mergeCalls = {}
  /\ outFiles = [f \in OutputNames |-> Old]
  /\ console = <<>>
  /\ exitCode = Undef
  /\ tables = NoMappings
  /\ result = Undef

InitMerge ==
  /\ script \in Scripts /\ mapping = NoMappingFile
  /\ AtRest
  /\ pc = "call"
  /\ \E a \in Records("a"), b \in Records("b") :
       call = [fn |-> "mergeDevices", deviceA |-> a, deviceB |-> b]

\* mergedData = mergeDevices(deviceA, deviceB); call keeps the two records as
\* they were passed (deviceA, deviceB) and gains the same two objects as they
\* are after the return (afterA, afterB)
CallMergeDevices ==
  /\ pc = "call" /\ call.fn = "mergeDevices"
  /\ result' = mergeDevices(call.deviceA, call.deviceB)
  /\ call' = [fn |-> call.fn, deviceA |-> call.deviceA, deviceB |-> call.deviceB,
              afterA |-> DeviceAAfterMerge(call.deviceA, call.deviceB),
              afterB |-> DeviceBAfterMerge(call.deviceA, call.deviceB)]
  /\ pc' = "returned"
  /\ UNCHANGED <<inputVars, engineVars, tables, outFiles, console, exitCode>>

NextMerge == CallMergeDevices

SpecMerge == InitMerge /\ [][NextMerge]_vars

Merged == pc = "returned" /\ call.fn = "mergeDevices"

\* the instructions string of a record's midi_channel
InstructionsOf(device) == Instructions(device.midi_channel)

\* C4: the merged midi_channel.instructions is the longer of the two records'
\* instructions strings, the primary's when they are equally long, also when
\* the primary's string is empty and the secondary's is not.
C4_LongerInstructions ==
  (Merged /\ IsStr(InstructionsOf(call.deviceA)) /\ IsStr(InstructionsOf(call.deviceB))) =>
    result.midi_channel.instructions
      = IF LengthOf(InstructionsOf(call.deviceA)) >= LengthOf(InstructionsOf(call.deviceB))
        THEN InstructionsOf(call.deviceA)
        ELSE InstructionsOf(call.deviceB)

ListFields == {"cc", "nrpn", "pc"}

\* C6: each of cc, nrpn and pc of the merged record is one of the two input
\* lists as it was, the one with more elements, A's when they are equally
\* long and [] when both are empty or missing; its length is the larger of
\* the two lengths and it is never the two lists joined.
C6_ListOfOneSide ==
  Merged =>
    \A f \in ListFields :
      LET a == call.deviceA[f]
          b == call.deviceB[f]
      IN /\ result[f] = IF LengthOf(a) = 0 /\ LengthOf(b) = 0 THEN Arr(<<>>)
                        ELSE IF LengthOf(a) >= LengthOf(b) THEN a ELSE b
         /\ LengthOf(result[f]) = Longest(LengthOf(a), LengthOf(b))

\* two different cc lists of the same length were merged and A's was kept,
\* next to a missing nrpn list merged with a list of one entry
C6_EqualLengthKeepsA ==
  /\ Merged
  /\ LengthOf(call.deviceA.cc) = MaxCC /\ LengthOf(call.deviceB.cc) = MaxCC
  /\ call.deviceA.cc # call.deviceB.cc
  /\ result.cc = call.deviceA.cc
  /\ call.deviceA.nrpn = Undef /\ LengthOf(call.deviceB.nrpn) = 1
  /\ result.nrpn = call.deviceB.nrpn

\* C23: mergeDevices leaves both of its argument records unchanged, their
\* nested midi_channel objects and their cc, nrpn and pc lists included.
C23_ArgumentsUnchanged ==
  Merged => /\ call.afterA = call.deviceA
            /\ call.afterB = call.deviceB

(***************************************************************************)
(* normalizeAndMapKey applied on its own                                   *)
(***************************************************************************)
k_access_music == <<"a","c","c","e","s","s","_","m","u","s","i","c">>
k_AccessMusic == <<"A","c","c","e","s","s","M","u","s","i","c">>
k_access == <<"a","c","c","e","s","s">>
k_Access_Music == <<"A","c","c","e","s","s"," ","M","u","s","i","c">>
k_ACCESS__MUSIC == <<"A","C","C","E","S","S"," "," ","M","U","S","I","C">>
k_accessaudio == <<"a","c","c","e","s","s","a","u","d","i","o">>
k_Ab == <<"A","b">>
k_ab == <<"a","b">>
k_AB == <<"A","B">>
k_Q == <<"Q">>
k_x == <<"x">>
k_virusa == <<"v","i","r","u","s","a">>
k_VIRUS_A == <<"V","I","R","U","S","_","A">>

AccessBrand ==
  [name |-> Str(k_Access_Music), value |-> Str(k_access),
   models |-> Arr(<<[name |-> Str(k_VirusA), value |-> Str(k_virus_a)]>>)]
\* two brands of which one has a value the other's name is the lowercase of
QBrand == [name |-> Str(k_Q), value |-> Str(k_Ab), models |-> Undef]
ABBrand == [name |-> Str(k_AB), value |-> Str(k_x), models |-> Undef]

NormConfigs ==
  {<<Legacy, NoMappingFile>>, <<Mapped, NoMappingFile>>,
   <<Mapped, [readable |-> TRUE, brands |-> <<AccessBrand>>]>>,
   <<Mapped, [readable |-> TRUE, brands |-> <<AccessBrand, BossBrand>>]>>,
   <<Mapped, [readable |-> TRUE, brands |-> <<QBrand, ABBrand>>]>>}

NormKeys ==
  {k_access_music, k_AccessMusic, k_access, k_Access_Music, k_ACCESS__MUSIC,
   k_accessaudio, k_Ab, k_ab, k_AB, k_Q, k_x, k_virusa, k_VIRUS_A, k_VirusA,
   k_virus_a, k_roland, k_roland_boss, k_BOSS, k_K_M}

InitNorm ==
  /\ \E c \in NormConfigs : script = c[1] /\ mapping = c[2]
  /\ AtRest
  /\ pc = "call"
  /\ \E k \in NormKeys, which \in {"brand", "device"} :
       call = [fn |-> "normalizeAndMapKey", key |-> k, table |-> which]

\* the tables the script normalizes with
CallLoadMappings ==
  /\ pc = "call" /\ call.fn = "normalizeAndMapKey"
  /\ tables' = IF script = Mapped THEN loadMappings(mapping) ELSE LegacyTables
  /\ pc' = "loaded"
  /\ UNCHANGED <<inputVars, engineVars, outFiles, console, exitCode, call, result>>

\* the call one of the loops makes for a brand key or a device key
CallNormalize ==
  /\ pc = "loaded"
  /\ result' = IF call.table = "brand"
               THEN ResolveBrand(script, tables, call.key)
               ELSE ResolveDevice(script, tables, call.key)
  /\ pc' = "returned"
  /\ UNCHANGED <<inputVars, engineVars, tables, outFiles, console, exitCode, call>>

NextNorm == CallLoadMappings \/ CallNormalize

SpecNorm == InitNorm /\ [][NextNorm]_vars

Normalized == pc = "returned" /\ call.fn = "normalizeAndMapKey"

\* the alias map and the display name table the call was given
AliasMap ==
  IF call.table = "brand" THEN tables.manufacturerMapping ELSE tables.deviceMapping
DisplayNames ==
  IF script = Mapped /\ call.table = "brand" THEN tables.brandDisplayNames ELSE EmptyObj

\* what the raw key stands for: the alias map's entry for the key, else its
\* entry for the lowercased key, else the key
MappedValue ==
  IF Has(AliasMap, call.key) THEN Get(AliasMap, call.key).v
  ELSE IF Has(AliasMap, toLowerCase(call.key)) THEN Get(AliasMap, toLowerCase(call.key)).v
  ELSE call.key

Matched == Has(AliasMap, call.key) \/ Has(AliasMap, toLowerCase(call.key))

\* C7 as stated: the id is the returned canonical name (the display name of a
\* matched key, the raw key of an unmatched one) in lowercase with every run
\* of whitespace replaced by one underscore.
C7_IdFromDisplayName ==
  Normalized => result.normalized = NormalForm(result.canonical)

\* C7: the id is the mapped value of a matched key, and the raw key of an
\* unmatched one, in lowercase with every run of whitespace replaced by one
\* underscore; the display name has no part in it.
C7_IdFromMappedValue ==
  Normalized => result.normalized = NormalForm(MappedValue)

\* a key was matched, its display name differs from its mapped value, and the
\* id is the mapped value's
C7_IdDiffersFromDisplayName ==
  /\ Normalized /\ Matched
  /\ call.key = k_Access_Music
  /\ result.canonical = k_Access_Music
  /\ result.normalized = k_access

\* the keys registered for a brand entry, and whether a raw key is one of
\* them as it is or in lowercase
RegisteredFor(brand) ==
  {BrandVariants(brand.name.v, brand.value.v)[i] :
     i \in 1..Len(BrandVariants(brand.name.v, brand.value.v))}
AliasOf(key, brand) ==
  key \in RegisteredFor(brand) \/ toLowerCase(key) \in RegisteredFor(brand)

DisplayOf(value) ==
  IF Has(DisplayNames, value) THEN Get(DisplayNames, value).v ELSE value

\* C9: the key itself is looked up first, the lowercased key second, and a
\* key found neither way is its own canonical name; the display name of a
\* match is the display name table's entry for the mapped value when there is
\* one and the mapped value otherwise.
C9_LookupOrder ==
  (Normalized /\ script = Mapped) =>
    result.canonical =
      IF Has(AliasMap, call.key) THEN DisplayOf(Get(AliasMap, call.key).v)
      ELSE IF Has(AliasMap, toLowerCase(call.key))
           THEN DisplayOf(Get(AliasMap, toLowerCase(call.key)).v)
           ELSE call.key

\* a key that the alias map holds both as it is and in lowercase, with
\* different values, was resolved by its own entry
C9_ExactBeforeLowercase ==
  /\ Normalized /\ script = Mapped
  /\ Has(AliasMap, call.key) /\ Has(AliasMap, toLowerCase(call.key))
  /\ Get(AliasMap, call.key) # Get(AliasMap, toLowerCase(call.key))
  /\ result.canonical = DisplayOf(Get(AliasMap, call.key).v)
  /\ result.canonical # Get(AliasMap, call.key).v

(***************************************************************************)
(* createStandardDevice applied on its own                                 *)
(***************************************************************************)
\* raw device objects: every field absent, falsy, or a value of its type;
\* the first of them is {}
RawDevices ==
  {[t |-> "device", brand |-> Undef, device_name |-> Undef,
    midi_thru |-> thru, midi_in |-> min, midi_clock |-> clock,
    phantom_power |-> power, midi_channel |-> channel, instructions |-> ins,
    cc |-> cc, nrpn |-> nrpn, pc |-> pcv] :
     thru \in {Undef, Bool(FALSE), Bool(TRUE)},
     min \in {Undef, Str(<<>>), Str(<<"D","I","N">>)},
     clock \in {Undef, Bool(TRUE)},
     power \in {Undef, Str(<<"9","V">>)},
     channel \in {Undef, Null, MidiChannel(Undef), MidiChannel(Str(<<"i">>))},
     ins \in {Undef, Str(<<"x">>)},
     cc \in {Undef} \cup {CCList("r", n) : n \in 0..MaxCC},
     nrpn \in {Undef, Arr(<<RawNRPN("r")>>)},
     pcv \in {Undef, Arr(<<RawCC("r", 0)>>), PcObject}}

\* a limit as a database holds it: absent, a number (0 among them), or a
\* string of digits
Limits ==
  {Undef, Num(0), Num(5), Str(<<"0">>), Str(<<"1","0">>), Str(<<"1","2","7">>)}

\* the fields cc and nrpn parameters share
RawFields ==
  {[name |-> n, description |-> d, usage |-> d, curve |-> c, min |-> lo, max |-> hi,
    type |-> ty] :
     n \in {Undef, Str(<<"p">>)}, d \in {Undef, Str(<<"d">>)},
     c \in {Undef, Str(<<"1","-","b","a","s","e","d">>)},
     ty \in {Undef, Str(<<"T">>)}, lo \in Limits, hi \in Limits}

\* devices with one cc parameter and one nrpn parameter
ParamDevices ==
  {[RawDevice(Arr(<<f @@ [value |-> Num(1)]>>), Undef, Undef) EXCEPT
      !.nrpn = Arr(<<[f EXCEPT !.min = g[1], !.max = g[2]]
                     @@ [msb |-> Num(1), lsb |-> Str(<<"2">>)]>>)] :
     f \in RawFields, g \in {<<Undef, Undef>>, <<Str(<<"0">>), Num(0)>>}}

InitStandard ==
  /\ script \in Scripts /\ mapping = NoMappingFile
  /\ AtRest
  /\ pc = "call"
  /\ \E d \in RawDevices \cup ParamDevices :
       call = [fn |-> "createStandardDevice", deviceData |-> d,
               brandName |-> Str(k_BOSS), deviceName |-> Str(k_VirusA)]

\* data: createStandardDevice(deviceData, brandName, deviceName)
CallCreateStandardDevice ==
  /\ pc = "call" /\ call.fn = "createStandardDevice"
  /\ result' = createStandardDevice(call.deviceData, call.brandName, call.deviceName)
  /\ pc' = "returned"
  /\ UNCHANGED <<inputVars, engineVars, tables, outFiles, console, exitCode, call>>

NextStandard == CallCreateStandardDevice

SpecStandard == InitStandard /\ [][NextStandard]_vars

Standardized == pc = "returned" /\ call.fn = "createStandardDevice"

DeviceFields ==
  {"brand", "device_name", "midi_thru", "midi_in", "midi_clock", "phantom_power",
   "midi_channel", "instructions", "cc", "nrpn", "pc"}

IsBool(x) == x \in {Bool(TRUE), Bool(FALSE)}

\* C14: the record createStandardDevice returns has every device field:
\* brand and device_name are the two name arguments, midi_thru and
\* midi_clock are booleans and false when the raw device has none, midi_in,
\* instructions and midi_channel.instructions are strings and "" when the raw
\* device has none, phantom_power is a string and "None" when the raw device
\* has none, cc and nrpn are lists of as many entries as the raw lists and
\* [] when the raw device has none, and pc is [].
C14_AllFieldsStandard ==
  Standardized =>
    LET d == call.deviceData
        r == result
    IN /\ \A f \in DeviceFields : r[f] # Undef
       /\ r.brand = call.brandName /\ r.device_name = call.deviceName
       /\ IsBool(r.midi_thru) /\ (d.midi_thru = Undef => r.midi_thru = Bool(FALSE))
       /\ IsBool(r.midi_clock) /\ (d.midi_clock = Undef => r.midi_clock = Bool(FALSE))
       /\ IsStr(r.midi_in) /\ (d.midi_in = Undef => r.midi_in = Str(<<>>))
       /\ IsStr(r.instructions) /\ (d.instructions = Undef => r.instructions = Str(<<>>))
       /\ r.midi_channel.t = "midi_channel"
       /\ IsStr(r.midi_channel.instructions)
       /\ (Instructions(d.midi_channel) = Undef => r.midi_channel.instructions = Str(<<>>))
       /\ IsStr(r.phantom_power)
       /\ (d.phantom_power = Undef => r.phantom_power = Str(s_None))
       /\ IsArr(r.cc) /\ Len(r.cc.v) = LengthOf(d.cc)
       /\ IsArr(r.nrpn) /\ Len(r.nrpn.v) = LengthOf(d.nrpn)
       /\ r.pc = Arr(<<>>)

\* createStandardDevice({}, "BOSS", "Virus A") has returned
C14_EmptyObjectStandardized ==
  /\ Standardized
  /\ \A f \in DeviceFields : call.deviceData[f] = Undef
  /\ result.phantom_power = Str(s_None) /\ result.cc = Arr(<<>>)

\* the strings of digits of the inputs and the integers they denote
NumericTexts == {<<<<"0">>, 0>>, <<<<"1","0">>, 10>>, <<<<"1","2","7">>, 127>>}

\* a limit is the source's when given, a string of digits as its integer,
\* and dflt when absent
LimitIs(std, raw, dflt) ==
  /\ raw = Undef => std = Num(dflt)
  /\ raw.t = "number" => std = raw
  /\ \A nt \in NumericTexts : raw = Str(nt[1]) => std = Num(nt[2])

\* name, description and usage default to "", curve to "0-based" and type to
\* "Parameter"; a given text is kept
TextsAre(std, raw) ==
  /\ \A f \in {"name", "description", "usage"} :
       std[f] = IF raw[f] = Undef THEN Str(<<>>) ELSE raw[f]
  /\ std.curve = IF raw.curve = Undef THEN Str(<<"0","-","b","a","s","e","d">>) ELSE raw.curve
  /\ std.type = IF raw.type = Undef
                THEN Str(<<"P","a","r","a","m","e","t","e","r">>) ELSE raw.type

\* C26: for every cc parameter the standardized min is the source's min when
\* given (a numeric string as the integer it denotes, a numeric 0 kept as 0)
\* and 0 when absent, max likewise with default 127; for every nrpn parameter
\* the defaults are 0 and 16383; name, description and usage default to "",
\* curve to "0-based" and type to "Parameter".
C26_ParameterDefaults ==
  (Standardized /\ call.deviceData \in ParamDevices) =>
    /\ \A i \in 1..Len(call.deviceData.cc.v) :
         /\ LimitIs(result.cc.v[i].min, call.deviceData.cc.v[i].min, 0)
         /\ LimitIs(result.cc.v[i].max, call.deviceData.cc.v[i].max, 127)
         /\ TextsAre(result.cc.v[i], call.deviceData.cc.v[i])
    /\ \A i \in 1..Len(call.deviceData.nrpn.v) :
         /\ LimitIs(result.nrpn.v[i].min, call.deviceData.nrpn.v[i].min, 0)
         /\ LimitIs(result.nrpn.v[i].max, call.deviceData.nrpn.v[i].max, 16383)
         /\ TextsAre(result.nrpn.v[i], call.deviceData.nrpn.v[i])

\* a cc parameter with min 0 and max "10" and an nrpn parameter without
\* limits have been standardized
C26_ZeroKeptAndDefaults ==
  /\ Standardized /\ call.deviceData \in ParamDevices
  /\ call.deviceData.cc.v[1].min = Num(0) /\ result.cc.v[1].min = Num(0)
  /\ call.deviceData.cc.v[1].max = Str(<<"1","0">>) /\ result.cc.v[1].max = Num(10)
  /\ call.deviceData.nrpn.v[1].min = Undef /\ result.nrpn.v[1].min = Num(0)
  /\ call.deviceData.nrpn.v[1].max = Undef /\ result.nrpn.v[1].max = Num(16383)
  /\ call.deviceData.cc.v[1].name = Undef /\ result.cc.v[1].name = Str(<<>>)

(***************************************************************************)
(* The diagnostics tool that lists what mapping.json lacks                 *)
(***************************************************************************)
\* key.toLowerCase().replace(/\s+/g, '')
StripWs(key) == ReplaceWs(toLowerCase(key), <<>>)

\* Set.prototype.add on a set kept in insertion order
SetAdd(seq, x) == IF \E i \in 1..Len(seq) : seq[i] = x THEN seq ELSE Append(seq, x)

\* Object.keys(x)
ObjectKeys(x) == [i \in 1..Len(ObjectEntries(x)) |-> ObjectEntries(x)[i].key]

RECURSIVE brandsByName(_, _)
\* brandsByName.set(brand.name.toLowerCase(), brand), brand by brand
brandsByName(map, brands) ==
  IF brands = <<>> THEN map
  ELSE brandsByName(Put(map, toLowerCase(brands[1].name.v), brands[1]), Tail(brands))

RECURSIVE brandsByValue(_, _)
\* brandsByValue.set(brand.value.toLowerCase(), brand), brand by brand
brandsByValue(map, brands) ==
  IF brands = <<>> THEN map
  ELSE brandsByValue(Put(map, toLowerCase(brands[1].value.v), brands[1]), Tail(brands))

RECURSIVE ModelsByValue(_, _, _)
\* devicesByValue.set(`${brand.value}_${model.value}`.toLowerCase(), model) for
\* the models of one brand that have a value
ModelsByValue(map, brandValue, models) ==
  IF models = <<>> THEN map
  ELSE ModelsByValue(
         IF Truthy(models[1].value)
         THEN Put(map, toLowerCase(brandValue \o <<"_">> \o models[1].value.v), models[1])
         ELSE map,
         brandValue, Tail(models))

RECURSIVE devicesByValue(_, _)
devicesByValue(map, brands) ==
  IF brands = <<>> THEN map
  ELSE devicesByValue(
         IF Truthy(brands[1].models)
         THEN ModelsByValue(map, brands[1].value.v, brands[1].models.v)
         ELSE map,
         Tail(brands))

\* the three lookup structures built from mapping.json
LookupStructures(brands) ==
  [brandsByName |-> brandsByName(EmptyObj, brands),
   brandsByValue |-> brandsByValue(EmptyObj, brands),
   devicesByValue |-> devicesByValue(EmptyObj, brands)]

\* the negation of the test that adds brandKey to missingBrands
BrandKnown(maps, brandKey) ==
  \/ Has(maps.brandsByName, toLowerCase(brandKey))
  \/ Has(maps.brandsByValue, StripWs(brandKey))
  \/ Has(maps.brandsByValue, toLowerCase(brandKey))

\* the brand of the mapping a known brandKey stands for
BrandFor(maps, brandKey) ==
  IF Has(maps.brandsByName, toLowerCase(brandKey))
  THEN Get(maps.brandsByName, toLowerCase(brandKey))
  ELSE IF Has(maps.brandsByValue, StripWs(brandKey))
  THEN Get(maps.brandsByValue, StripWs(brandKey))
  ELSE Get(maps.brandsByValue, toLowerCase(brandKey))

RECURSIVE DeviceScan(_, _, _, _, _)
\* Object.keys(db[brandKey]).forEach from key j on: a device key whose
\* deviceId is no key of devicesByValue joins missingDevices[brand.value]
DeviceScan(deviceKeys, j, brand, maps, missingDevices) ==
  IF j > Len(deviceKeys) THEN missingDevices
  ELSE LET deviceKey == deviceKeys[j]
           deviceId == brand.value.v \o <<"_">> \o StripWs(deviceKey)
           listed == IF Has(missingDevices, brand.value.v)
                     THEN Get(missingDevices, brand.value.v).v
                     ELSE <<>>
       IN DeviceScan(deviceKeys, j + 1, brand, maps,
            IF Has(maps.devicesByValue, deviceId) THEN missingDevices
            ELSE Put(missingDevices, brand.value.v, Arr(SetAdd(listed, deviceKey))))

RECURSIVE BrandScan(_, _, _, _, _)
\* Object.keys(db).forEach from key i on; only the target's loop skips the
\* reserved keys; Object.keys throws on a known brand whose entry is null
BrandScan(side, db, i, maps, acc) ==
  IF i > Len(db.v) \/ acc.thrown THEN acc
  ELSE LET brandKey == db.v[i].key
           inner == db.v[i].val
       IN BrandScan(side, db, i + 1, maps,
            IF side = "target" /\ IsReserved(brandKey) THEN acc
            ELSE IF ~BrandKnown(maps, brandKey)
            THEN [acc EXCEPT !.missingBrands = SetAdd(@, brandKey)]
            ELSE IF EntriesThrows(inner) THEN [acc EXCEPT !.thrown = TRUE]
            ELSE [acc EXCEPT !.missingDevices =
                    DeviceScan(ObjectKeys(inner), 1, BrandFor(maps, brandKey), maps, @)])

RECURSIVE ReportDevices(_, _, _, _)
\* the loop over missingDevices.entries() that prints the devices: brand.name
\* throws when brandsByValue has no entry under the brand's value as written
ReportDevices(missingDevices, i, maps, printed) ==
  IF i > Len(missingDevices.v) THEN [devices |-> printed, thrown |-> FALSE]
  ELSE IF ~Has(maps.brandsByValue, missingDevices.v[i].key)
  THEN [devices |-> printed, thrown |-> TRUE]
  ELSE ReportDevices(missingDevices, i + 1, maps,
         printed \o [j \in 1..Len(missingDevices.v[i].val.v) |->
                       [brand |-> missingDevices.v[i].key,
                        device |-> missingDevices.v[i].val.v[j]]])

NothingReported == [thrown |-> TRUE, brands |-> <<>>, devices |-> <<>>]

\* a run of the tool: what it prints as missing brands and missing devices,
\* and whether an exception ended it
findMissing(files, mappingFile, target, source) ==
  IF LoadThrows(mappingFile) \/ DbFiles(files) = {}
     \/ target = Malformed \/ source = Malformed
  THEN NothingReported
  ELSE LET maps == LookupStructures(mappingFile.brands)
           none == [missingBrands |-> <<>>, missingDevices |-> EmptyObj, thrown |-> FALSE]
           scanned == BrandScan("source", source, 1, maps,
                                BrandScan("target", target, 1, maps, none))
           report == ReportDevices(scanned.missingDevices, 1, maps, <<>>)
       IN IF scanned.thrown THEN NothingReported
          ELSE [thrown |-> report.thrown, brands |-> scanned.missingBrands,
                devices |-> report.devices]

DiagBrandKeys == BrandKeys \cup {k_access_music, k_Access_Music}

\* a database of one brand with one device, or one without devices
DiagDbs(tag) ==
  {Obj(<<OneDevice(b, d, RawDevice(CCList(tag, 1), Undef, Undef))>>) :
     b \in DiagBrandKeys, d \in DeviceKeys}
  \cup {EmptyObj, Obj(MetaEntries), Obj(<<Entry(k_roland, Null)>>), Malformed}

DiagMappings == MappingFiles \cup {[readable |-> TRUE, brands |-> <<AccessBrand>>]}

InitMissing ==
  /\ script = Mapped
  /\ mapping \in DiagMappings
  /\ dirFiles \in {Listing, {f_db1_min, f_all}}
  /\ targetFile \in DiagDbs("t") /\ sourceFile \in DiagDbs("s")
  /\ targetDb = Undef /\ sourceDb = Undef /\ metadata = Undef
  /\ manufacturers = Undef /\ normalizedDeviceMap = Undef /\ finalDb = Undef
  /\ idx = 0
  /\ mergeCalls = {}
  /\ outFiles = [f \in OutputNames |-> Old]
  /\ console = <<>>
  /\ exitCode = Undef
  /\ tables = NoMappings
  /\ result = Undef
  /\ pc = "call"
  /\ call = [fn |-> "findMissing"]

\* the tool runs from its first statement to its last
RunFindMissing ==
  /\ pc = "call" /\ call.fn = "findMissing"
  /\ result' = findMissing(dirFiles, mapping, targetFile, sourceFile)
  /\ pc' = "returned"
  /\ UNCHANGED <<inputVars, engineVars, tables, outFiles, console, exitCode, call>>

NextMissing == RunFindMissing

SpecMissing == InitMissing /\ [][NextMissing]_vars

\* the tool has run to its end without an exception
Diagnosed == pc = "returned" /\ call.fn = "findMissing" /\ ~result.thrown

\* normalizeAndMapKey finds an alias for the key in the table
HasAlias(table, key) == Truthy(MappedTo(table, key))

\* the brand entries of a database the tool and the merge script iterate
\* over: the target's reserved keys are no brands
BrandsOf(side, db) ==
  {i \in 1..Len(db.v) : ~(side = "target" /\ IsReserved(db.v[i].key))}

\* C24: the diagnostics tool and the normalizer agree on what is mapped: a
\* brand key of either database is reported as a missing brand if and only if
\* normalizeAndMapKey finds no alias for it, and every device key of either
\* database that has no alias is reported as a missing device under its raw
\* spelling.
C24_DiagnosticsAgree ==
  Diagnosed =>
    LET t == loadMappings(mapping) IN
    \A side \in {"target", "source"} :
      LET db == IF side = "target" THEN targetFile ELSE sourceFile IN
      \A i \in BrandsOf(side, db) :
        /\ (\E n \in 1..Len(result.brands) : result.brands[n] = db.v[i].key)
             <=> ~HasAlias(t.manufacturerMapping, db.v[i].key)
        /\ \A j \in 1..Len(ObjectEntries(db.v[i].val)) :
             LET deviceKey == ObjectEntries(db.v[i].val)[j].key IN
             ~HasAlias(t.deviceMapping, deviceKey) =>
               \E n \in 1..Len(result.devices) : result.devices[n].device = deviceKey

(***************************************************************************)
(* findLatestDatabase applied on its own                                   *)
(***************************************************************************)
\* midi-database-v<version><suffix>
DbName(version, suffix) == s_prefix \o version \o suffix

\* a directory holds any of: all.json, the databases of versions 1, 1.9,
\* 1.10 and 2.0, a minified database and a compressed one
DirectoryNames ==
  {f_all, f_db1,
   DbName(<<"1",".","9">>, s_json), DbName(<<"1",".","1","0">>, s_json),
   DbName(<<"2",".","0">>, s_json),
   DbName(<<"2",".","1">>, s_min_json), DbName(<<"2",".","2">>, s_json_gz)}

Thrown == [t |-> "thrown"]

InitLatest ==
  /\ script \in Scripts /\ mapping = NoMappingFile
  /\ dirFiles \in SUBSET DirectoryNames
  /\ targetFile = EmptyObj /\ sourceFile = EmptyObj
  /\ targetDb = Undef /\ sourceDb = Undef /\ metadata = Undef
  /\ manufacturers = Undef /\ normalizedDeviceMap = Undef /\ finalDb = Undef
  /\ idx = 0
  /\ mergeCalls = {}
  /\ outFiles = [f \in OutputNames |-> Old]
  /\ console = <<>>
  /\ exitCode = Undef
  /\ tables = NoMappings
  /\ result = Undef
  /\ pc = "call"
  /\ call = [fn |-> "findLatestDatabase"]

\* const targetDbPath = findLatestDatabase()
CallFindLatestDatabase ==
  /\ pc = "call" /\ call.fn = "findLatestDatabase"
  /\ result' = IF DbFiles(dirFiles) = {} THEN Thrown
               ELSE Str(findLatestDatabase(dirFiles))
  /\ pc' = "returned"
  /\ UNCHANGED <<inputVars, engineVars, tables, outFiles, console, exitCode, call>>

NextLatest == CallFindLatestDatabase

SpecLatest == InitLatest /\ [][NextLatest]_vars

LatestFound == pc = "returned" /\ call.fn = "findLatestDatabase"

RECURSIVE Components(_, _)
\* the numbers a dotted version text denotes
Components(text, n) ==
  IF text = <<>> THEN <<n>>
  ELSE IF text[1] = "." THEN <<n>> \o Components(Tail(text), 0)
  ELSE Components(Tail(text), 10 * n + DigitVal(text[1]))

\* the version a database file name carries
VersionOf(f) == Components(SubSeq(f, Len(s_prefix) + 1, Len(f) - Len(s_json)), 0)

RECURSIVE VersionLess(_, _)
\* semantic version order: the first differing component decides, a missing
\* component counts as 0
VersionLess(a, b) ==
  IF a = <<>> /\ b = <<>> THEN FALSE
  ELSE LET x == IF a = <<>> THEN 0 ELSE a[1]
           y == IF b = <<>> THEN 0 ELSE b[1]
       IN IF x # y THEN x < y
          ELSE VersionLess(IF a = <<>> THEN a ELSE Tail(a), IF b = <<>> THEN b ELSE Tail(b))

\* C25: findLatestDatabase returns the midi-database-v*.json file (no
\* .min.json, no .json.gz) of the highest semantic version among those
\* present, multi-digit components included, and throws when there is none.
C25_HighestVersion ==
  LatestFound =>
    IF DbFiles(dirFiles) = {} THEN result = Thrown
    ELSE /\ result.v \in DbFiles(dirFiles)
         /\ \A g \in DbFiles(dirFiles) : ~VersionLess(VersionOf(result.v), VersionOf(g))

(***************************************************************************)
(* The workflow around the merge script                                    *)
(***************************************************************************)
\* the rest of the step 'Run merge script' once node has ended: the shell
\* runs with -e, so a non-zero exit status of node fails the step; otherwise
\* the step fails when midi.json is missing or no valid JSON. A midi.json the
\* run did not write is the one of the checkout, if the checkout has one.
MergeStepEnds ==
  /\ pc = "exit"
  /\ \/ /\ exitCode # Num(0)
        /\ pc' = "mergeStepFailed"
     \/ /\ exitCode = Num(0)
        /\ outFiles["midi.json"] = Old
        /\ pc' \in {"mergeStepFailed", "mergeStepPassed"}
     \/ /\ exitCode = Num(0)
        /\ outFiles["midi.json"] # Old
        /\ pc' = "mergeStepPassed"
  /\ UNCHANGED <<inputVars, engineVars, tables, outFiles, console, exitCode, call, result>>

\* the step 'Commit and push changes': it runs only when no earlier step
\* failed, and commits when git reports a change
CommitAndPush ==
  /\ pc = "mergeStepPassed"
  /\ pc' \in {"committed", "nothingToCommit"}
  /\ UNCHANGED <<inputVars, engineVars, tables, outFiles, console, exitCode, call, result>>

NextWorkflow == Next \/ MergeStepEnds \/ CommitAndPush

SpecWorkflow == Init /\ [][NextWorkflow]_vars

\* the merge script failed: an exception ended the process or reached the
\* catch block of the main try
MergeFailed ==
  \E i \in 1..Len(console) :
    \/ console[i].t = "uncaught"
    \/ console[i].t = "error" /\ console[i].at = "run"

\* C27: if the merge script fails, the step 'Run merge script' fails and the
\* step 'Commit and push changes' does not run, so no commit is made from a
\* failed merge.
C27_NoCommitAfterFailedMerge ==
  MergeFailed => pc \notin {"mergeStepPassed", "committed", "nothingToCommit"}

====
